---- MODULE Spec2Model ----
(***************************************************************************)
(* Outbound-email delivery engine of inbox-buddy.                          *)
(*                                                                         *)
(* Persisted store   : campaigns, email_queue, sent_emails (migration SQL) *)
(* send-email handler: supabase/functions/send-email/index.ts, one step    *)
(*                     per awaited store or transport call                 *)
(* Scheduler         : the CampaignProgress page (unnamed/part_002), the   *)
(*                     revision that calls this handler: local React state,*)
(*                     refs, the start effect, the timer loop and the      *)
(*                     pause / resume / stop handlers                      *)
(*                                                                         *)
(* One browser session shows one campaign page at a time; a page load      *)
(* (Mount) drops the JavaScript state of the page, while handler           *)
(* invocations already running on the server run to their end.             *)
(***************************************************************************)
EXTENDS Integers, Sequences, FiniteSets, TLC

\* ------------------------------------------------------------------ bounds
\* number of send-email invocations that can be running at the same time
MaxSends == 2
\* number of page loads of the campaign page in one behaviour
MaxMounts == 1
\* number of send-email requests that callers other than the page make in
\* one behaviour
MaxRequests == 3
\* number of pastes and file uploads into the New Campaign form in one
\* behaviour
MaxInputs == 2
\* number of campaigns the New Campaign form submits in one behaviour
MaxCampaigns == 2
\* number of track-event requests in one behaviour
MaxEvents == 3

\* ------------------------------------------------------------ the data set
\* two campaigns of one user; campaign 1 lists a, b (and c, item 4, when it
\* was submitted with three recipients) and campaign 2 lists a
Campaigns == {1, 2}
Items == {1, 2, 3, 4}
Slots == 1..MaxSends
\* a campaign of another user
ForeignCampaign == 9

CampaignOf(q) == IF q = 3 THEN 2 ELSE 1
Recipient(q) == CASE q = 2 -> "b" [] q = 4 -> "c" [] OTHER -> "a"
ItemsOf(c) == {q \in Items : CampaignOf(q) = c}

CampStatuses == {"draft", "running", "paused", "completed"}
\* every status value the code ever writes to email_queue.status
QStatuses == {"pending", "sending", "sent", "skipped", "failed"}
\* CHECK (status IN (...)) of public.email_queue
QueueStatusCheck == {"pending", "sending", "sent", "failed"}

VARIABLES
    \* persisted store
    campStatus,     \* campaigns.status
    sentCount,      \* campaigns.sent_count
    qStatus,        \* email_queue.status, "none" when the row does not exist
    sentEmails,     \* rows of sent_emails, in insertion order
    \* send-email invocations
    inv,
    \* the campaign page
    view,           \* campaign whose page is open, 0 when none
    mounts,         \* page loads so far
    fetching,       \* fetchCampaign is awaiting its two queries
    loading,        \* state `loading`
    queueLoaded,    \* state `queueLoaded`
    lcStatus,       \* state `campaign`.status, "null" while campaign is null
    lcSent,         \* state `campaign`.sent_count
    lq,             \* state `queue` (status per item, "none" when not listed)
    qref,           \* queueRef.current
    isRunningRef,   \* isRunningRef.current
    timerArmed,     \* the timer whose id is in timerRef.current is live
    leaked,         \* live timers whose id was overwritten in timerRef
    dirty,          \* state updates waiting for the next render
    ctl,            \* control handler awaiting its campaigns update
    completing,     \* processQueue runs awaiting their 'completed' update
    \* observation
    tried,          \* send-email requests made in this behaviour, per item
    delivered,      \* transport connections opened in this behaviour, per item
    ctlUsed,        \* a pause, resume or stop was requested
    hold,           \* pause was requested during a delivery, no resume since
    \* the New Campaign form and the rows it inserts
    emails,         \* state `emails`
    duplicates,     \* state `duplicates`
    reading,        \* file contents whose FileReader has not called onload
    submit,         \* handleStartCampaign between its two inserts
    campaignRows,   \* campaigns rows inserted by the form, in order
    queueRows,      \* email_queue rows inserted by the form, in order
    inputs,         \* pastes and uploads made in this behaviour
    repeated,       \* an address was offered to the form more than once
    \* one run of sendEmailViaSMTP on its connection
    wire,
    \* one message on its way from the request to the connection
    letter,
    \* tracking
    trackingEvents, \* rows of tracking_events, in insertion order
    openedAt,       \* sent_emails.opened_at per row, 0 when null
    clickedAt,      \* sent_emails.clicked_at per row, 0 when null
    track,          \* track-event invocations
    now,            \* the clock that new Date() reads
    tracked         \* track-event requests made in this behaviour

store == <<campStatus, sentCount, qStatus, sentEmails>>
page == <<view, mounts, fetching, loading, queueLoaded, lcStatus, lcSent, lq,
          qref, isRunningRef, timerArmed, leaked, dirty, ctl, completing>>
obs == <<tried, delivered, ctlUsed, hold>>
form == <<emails, duplicates, reading, submit, campaignRows, queueRows,
          inputs, repeated>>
transport == <<wire, letter>>
tracking == <<trackingEvents, openedAt, clickedAt, track, now, tracked>>
vars == <<store, inv, page, obs, form, transport, tracking>>

\* ------------------------------------------------------------- invocations
\* one invocation of the handler: the request body it received
\*   item   queueItemId (0 when the body has none)
\*   camp   campaignId (0 when the body has none)
\*   test   testMode
\*   bad    the request field that fails its validation, "none" when all pass
\*   cfg    the caller's row of user_smtp_settings when the handler reads it:
\*          "ok", "none" (no row), "unusable" (the From address is invalid
\*          or host, port, username or password is empty)
\*   client an `smtp` object in the body (host, port, username, password,
\*          from address), "none" when the body has none
\* and what it has done so far
\*   calls  calls of sendEmailViaSMTP,  smtp  connections opened
\*   err    the reply code that ended the SMTP dialogue, 0 when none did
\*   host   the SmtpConfig its connections were opened with, "none" before
\*   error  the reply code that the `error` text of its Response contains,
\*          0 when the text contains none
\*   accepted  the mail server answered 250 to the end of the data of its
\*          delivery
Idle == [pc |-> "idle", item |-> 0, camp |-> 0, test |-> FALSE, bad |-> "none",
         cfg |-> "ok", client |-> "none", saw |-> "none", seen |-> 0,
         result |-> "none", skipped |-> FALSE, calls |-> 0, smtp |-> 0, err |-> 0,
         host |-> "none", error |-> 0, accepted |-> FALSE,
         inserted |-> FALSE, counted |-> FALSE, att |-> FALSE]

\* the request body sendEmail posts: queueItemId, campaignId, recipientEmail,
\* subject and body of the campaign; the page runs the processor only while
\* the user's SMTP settings row exists
Request(q) == [Idle EXCEPT !.pc = "start", !.item = q, !.camp = CampaignOf(q),
                           !.att = TRUE]

FreeSlots == {s \in Slots : inv[s].pc = "idle"}
InFlight == {s \in Slots : inv[s].pc # "idle"}

\* update email_queue set status = v where id = q; the row's CHECK
\* constraint rejects a value outside QueueStatusCheck and the handler
\* ignores the returned error
QueueUpdate(q, v) ==
    IF v \in QueueStatusCheck /\ qStatus[q] # "none"
    THEN [qStatus EXCEPT ![q] = v] ELSE qStatus

\* "If already finalized, don't send again"
FinalizedSkippedOnly(st) == st = "skipped"
Finalized(st) == st \in {"sent", "skipped"}

\* select id from sent_emails where user_id, recipient_email, status = 'sent'
ExistingSent(r) ==
    \E i \in DOMAIN sentEmails :
        sentEmails[i].rcpt = r /\ sentEmails[i].status = "sent"

\* idx_sent_emails_unique on sent_emails(user_id, recipient_email)
NoUniqueIndex(r) == TRUE
UniqueIndexAccepts(r) == \A i \in DOMAIN sentEmails : sentEmails[i].rcpt # r

Min(S) == CHOOSE x \in S : \A y \in S : x <= y

\* ---------------------------------------------------- request validation
\* the checks of the handler before it looks at testMode, in order:
\* recipient, subject, body, then the user_smtp_settings row
ValidateRequest(r) ==
    CASE r.bad = "recipient" -> "Invalid recipient email"
      [] r.bad = "subject" -> "Invalid subject"
      [] r.bad = "body" -> "Invalid email body"
      [] r.cfg = "none" -> "SMTP not configured"
      [] OTHER -> "ok"

\* "Test mode - just send email without database updates"
TestModeIgnored(r) == FALSE
TestMode(r) == r.test

\* campaign mode: both ids present, the campaign is the caller's, the queue
\* item is a row of that campaign
NoCampaignChecks(r) == "ok"
CampaignChecks(r) ==
    CASE r.item = 0 \/ r.camp = 0 -> "ids required"
      [] r.camp \notin Campaigns -> "Campaign not found"
      [] r.item \notin ItemsOf(r.camp) \/ qStatus[r.item] = "none" ->
            "Queue item not found"
      [] OTHER -> "ok"

\* status of the Response each outcome is returned with
HttpStatus(result) ==
    CASE result \in {"already", "dupskip", "sent", "test sent"} -> 200
      [] result \in {"Invalid recipient email", "Invalid subject",
                     "Invalid email body", "SMTP not configured",
                     "ids required", "test failed"} -> 400
      [] result \in {"Campaign not found", "Queue item not found"} -> 404
      [] result = "failed" -> 500
      [] OTHER -> 0

\* ------------------------------------------------------------ the transport
\* reply codes readExpected accepts at each step of sendEmailViaSMTP
Expected(step) ==
    CASE step \in {"greeting", "STARTTLS"} -> {220}
      [] step \in {"EHLO", "MAIL FROM", "end-of-data"} -> {250}
      [] step \in {"AUTH LOGIN", "username"} -> {334}
      [] step = "password" -> {235}
      [] step = "AUTH PLAIN" -> {235, 503}
      [] step = "RCPT TO" -> {250, 251}
      [] step = "DATA" -> {354}
      [] step = "QUIT" -> {221}

\* the steps in order, the server's i-th reply answering the i-th step that
\* is sent: stops at the first reply outside the expected set (assertExpected
\* throws) or when the server sends nothing more (readLine throws, code 0)
RECURSIVE Dialogue(_, _, _)
Dialogue(steps, replies, i) ==
    IF steps = <<>> THEN [ok |-> TRUE, next |-> i, err |-> 0]
    ELSE IF i > Len(replies) THEN [ok |-> FALSE, next |-> i, err |-> 0]
    ELSE IF replies[i] \notin Expected(Head(steps))
         THEN [ok |-> FALSE, next |-> i + 1, err |-> replies[i]]
         ELSE Dialogue(Tail(steps), replies, i + 1)

\* AUTH: LOGIN first; when any of its three steps throws, PLAIN
Authenticate(replies, i) ==
    LET login == Dialogue(<<"AUTH LOGIN", "username", "password">>, replies, i) IN
    IF login.ok THEN login ELSE Dialogue(<<"AUTH PLAIN">>, replies, login.next)

\* the dialogue of sendEmailViaSMTP on an unencrypted connection, up to
\* the reply that ends it
DialogueOutcome(replies) ==
    LET hello == Dialogue(<<"greeting", "EHLO">>, replies, 1)
        auth == Authenticate(replies, hello.next)
        mail == Dialogue(<<"MAIL FROM", "RCPT TO", "DATA", "end-of-data",
                           "QUIT">>, replies, auth.next)
    IN IF ~hello.ok THEN hello ELSE IF ~auth.ok THEN auth ELSE mail

\* the dialogue got the expected reply to every step up to the end of the
\* data: the server has accepted the message
DataAccepted(replies) ==
    LET hello == Dialogue(<<"greeting", "EHLO">>, replies, 1)
        auth == Authenticate(replies, hello.next)
        mail == Dialogue(<<"MAIL FROM", "RCPT TO", "DATA", "end-of-data">>,
                         replies, auth.next)
    IN hello.ok /\ auth.ok /\ mail.ok

\* sendEmailViaSMTP: checks of the settings before connecting, then the
\* dialogue; it returns (ok) or throws
sendEmailViaSMTPIgnoresReply(cfg, replies) ==
    [ok |-> cfg = "ok", connected |-> cfg = "ok",
     err |-> IF cfg = "ok" THEN DialogueOutcome(replies).err ELSE 0,
     accepted |-> cfg = "ok" /\ DataAccepted(replies)]
sendEmailViaSMTP(cfg, replies) ==
    IF cfg # "ok"
    THEN [ok |-> FALSE, connected |-> FALSE, err |-> 0, accepted |-> FALSE]
    ELSE [ok |-> DialogueOutcome(replies).ok, connected |-> TRUE,
          err |-> DialogueOutcome(replies).err,
          accepted |-> DataAccepted(replies)]

\* what the mail server answers during one connection: LOGIN accepted;
\* LOGIN not offered, PLAIN accepted; password refused, PLAIN answered 503;
\* password refused by LOGIN and by PLAIN; LOGIN not offered, PLAIN refused;
\* message accepted, QUIT answered 421
ServerScripts ==
    { <<220, 250, 334, 334, 235, 250, 250, 354, 250, 221>>,
      <<220, 250, 334, 334, 235, 250, 250, 354, 250, 421>>,
      <<220, 250, 504, 235, 250, 250, 354, 250, 221>>,
      <<220, 250, 334, 334, 535, 503, 250, 251, 354, 250, 221>>,
      <<220, 250, 334, 334, 535, 535>>,
      <<220, 250, 504, 535>> }

\* const smtp: SmtpConfig = {host: smtpData.host, ...}: the configuration a
\* request is delivered with is built from the stored row
SmtpConfigFromBody(r) == IF r.client # "none" THEN r.client ELSE "stored"
SmtpConfig(r) == "stored"

\* the reply code in the message of the Error that sendEmailViaSMTP throws:
\* assertExpected puts the code and the raw reply into the message, the
\* other errors (settings checks, connection closed) carry none
ErrorMessage(out) == out.err

\* the outcomes of one call with complete settings, and with any settings
Delivered == {sendEmailViaSMTP("ok", replies) : replies \in ServerScripts}
Outcomes(cfg) == IF cfg = "ok" THEN Delivered ELSE {sendEmailViaSMTP(cfg, <<>>)}

\* handleStartCampaign is not running
NoSubmit == [pc |-> "idle", campaign_id |-> 0, validEmails |-> <<>>]

\* no connection
NoWire == [pc |-> "none"]

\* no message
NoMail == [pc |-> "none"]

\* ------------------------------------------------------------------- Init
\* The store as handleStartCampaign leaves it: both campaigns inserted with
\* status 'running' and sent_count 0, every queue item 'pending'.  Campaign 1
\* was submitted with the two recipients a and b.
FreshStore ==
    /\ campStatus = [c \in Campaigns |-> "running"]
    /\ sentCount = [c \in Campaigns |-> 0]
    /\ qStatus = [q \in Items |-> IF q = 4 THEN "none" ELSE "pending"]
    /\ sentEmails = <<>>
    /\ tried = [q \in Items |-> 0]
    /\ delivered = [q \in Items |-> 0]

\* The store after an earlier page load of campaign 2 delivered its one
\* item (fetchCampaign, start effect, one successful send-email) and the
\* page was closed: campaign 1 was submitted before that delivery, so its
\* queue still lists recipient a.
EarlierRunStore ==
    /\ campStatus = [c \in Campaigns |-> "running"]
    /\ sentCount = [c \in Campaigns |-> IF c = 2 THEN 1 ELSE 0]
    /\ qStatus = [q \in Items |->
                    CASE q = 3 -> "sent" [] q = 4 -> "none" [] OTHER -> "pending"]
    /\ sentEmails = <<[rcpt |-> "a", camp |-> 2, status |-> "sent"]>>
    /\ tried = [q \in Items |-> 0]
    /\ delivered = [q \in Items |-> 0]

\* The store as handleStartCampaign leaves it when campaign 1 was submitted
\* with the three recipients a, b, c, after a campaign that has since been
\* deleted had delivered to b (sent_emails.campaign_id ON DELETE SET NULL).
LongQueueStore ==
    /\ campStatus = [c \in Campaigns |-> "running"]
    /\ sentCount = [c \in Campaigns |-> 0]
    /\ qStatus = [q \in Items |-> "pending"]
    /\ sentEmails = <<[rcpt |-> "b", camp |-> 0, status |-> "sent"]>>
    /\ tried = [q \in Items |-> 0]
    /\ delivered = [q \in Items |-> 0]

\* The store of LongQueueStore after a page session of campaign 1 that
\* ended during the delivery of item 1: the handler had marked the item
\* 'sending' (MarkSending) and the invocation never reached its next update
\* (the function instance was shut down while the SMTP dialogue, which has
\* no timeout, was waiting for the server).
InterruptedRunStore ==
    /\ campStatus = [c \in Campaigns |-> "running"]
    /\ sentCount = [c \in Campaigns |-> 0]
    /\ qStatus = [q \in Items |-> IF q = 1 THEN "sending" ELSE "pending"]
    /\ sentEmails = <<[rcpt |-> "b", camp |-> 0, status |-> "sent"]>>
    /\ tried = [q \in Items |-> 0]
    /\ delivered = [q \in Items |-> 0]

\* no page is open and no invocation is running
PageClosed ==
    /\ inv = [s \in Slots |-> Idle]
    /\ view = 0
    /\ mounts = 0
    /\ fetching = FALSE
    /\ loading = TRUE
    /\ queueLoaded = FALSE
    /\ lcStatus = "null"
    /\ lcSent = 0
    /\ lq = [q \in Items |-> "none"]
    /\ qref = [q \in Items |-> "none"]
    /\ isRunningRef = FALSE
    /\ timerArmed = FALSE
    /\ leaked = 0
    /\ dirty = "clean"
    /\ ctl = "none"
    /\ completing = 0
    /\ ctlUsed = FALSE
    /\ hold = FALSE

\* the New Campaign form as it is mounted, and no campaign submitted by it
FormClosed ==
    /\ emails = <<>>
    /\ duplicates = {}
    /\ reading = <<>>
    /\ submit = NoSubmit
    /\ campaignRows = <<>>
    /\ queueRows = <<>>
    /\ inputs = 0
    /\ repeated = FALSE

\* no run of sendEmailViaSMTP has started, no message is being handled
WireClosed == wire = NoWire /\ letter = NoMail

\* ids of the rows of sent_emails, in insertion order
SentIds == 1..3
TrackSlots == 1..2
\* no track-event invocation
NoTrack == [pc |-> "idle", token |-> 0, eventType |-> "none", id |-> 0]

\* no tracking event was received: opened_at and clicked_at are null in
\* every row of sent_emails
NoTracking ==
    /\ trackingEvents = <<>>
    /\ openedAt = [i \in SentIds |-> 0]
    /\ clickedAt = [i \in SentIds |-> 0]
    /\ track = [t \in TrackSlots |-> NoTrack]
    /\ now = 1
    /\ tracked = 0

Init ==
    /\ FreshStore \/ EarlierRunStore
    /\ PageClosed
    /\ FormClosed
    /\ WireClosed
    /\ NoTracking

\* ------------------------------------------- send-email handler, by await
\* an outcome the handler returns without doing anything further
Reply(r, res) == [r EXCEPT !.pc = "resp", !.result = res]

\* From the request to the read of the queue item.  The settings row, the
\* campaign's owner and the item's campaign never change, so the awaited
\* reads of them are taken in the same step as the read of the item's
\* status.  Rejections: validation (400), missing ids (400), campaign not
\* the caller's or item not of the campaign (404); test mode branches off
\* before the campaign checks; "Already processed" when the item is sent or
\* skipped.
ReadQueueItem(s) ==
    /\ inv[s].pc = "start"
    /\ LET r == inv[s]
           st == qStatus[r.item] IN
       inv' = [inv EXCEPT ![s] =
                 IF ValidateRequest(r) # "ok" THEN Reply(r, ValidateRequest(r))
                 ELSE IF TestMode(r) THEN [r EXCEPT !.pc = "test"]
                 ELSE IF CampaignChecks(r) # "ok" THEN Reply(r, CampaignChecks(r))
                 ELSE IF Finalized(st)
                 THEN [r EXCEPT !.pc = "resp", !.saw = st, !.result = "already",
                                !.skipped = (st = "skipped")]
                 ELSE [r EXCEPT !.pc = "dupcheck", !.saw = st]]
    /\ UNCHANGED <<store, page, obs>>
    /\ UNCHANGED <<form, transport, tracking>>

\* test mode: one call of sendEmailViaSMTP, no database updates; the error
\* message of a failure is returned with status 400 as the `error` of the
\* Response
TestSend(s) ==
    /\ inv[s].pc = "test"
    /\ \E out \in Outcomes(inv[s].cfg) :
          inv' = [inv EXCEPT ![s].pc = "resp",
                             ![s].result = IF out.ok THEN "test sent" ELSE "test failed",
                             ![s].calls = inv[s].calls + 1,
                             ![s].smtp = inv[s].smtp + (IF out.connected THEN 1 ELSE 0),
                             ![s].host = IF out.connected THEN SmtpConfig(inv[s]) ELSE @,
                             ![s].err = out.err,
                             ![s].error = IF out.ok THEN 0 ELSE ErrorMessage(out)]
    /\ UNCHANGED <<store, page, obs>>
    /\ UNCHANGED <<form, transport, tracking>>

\* global duplicate protection per user: look for a sent SentRecord
CheckExistingSent(s) ==
    /\ inv[s].pc = "dupcheck"
    /\ inv' = [inv EXCEPT ![s].pc =
                 IF ExistingSent(Recipient(inv[s].item)) THEN "skip"
                 ELSE "marksending"]
    /\ UNCHANGED <<store, page, obs>>
    /\ UNCHANGED <<form, transport, tracking>>

\* duplicate found: update the queue item to 'skipped', answer
\* "Duplicate skipped" with skipped: true
MarkSkipped(s) ==
    /\ inv[s].pc = "skip"
    /\ qStatus' = QueueUpdate(inv[s].item, "skipped")
    /\ inv' = [inv EXCEPT ![s].pc = "resp", ![s].result = "dupskip",
                          ![s].skipped = TRUE]
    /\ UNCHANGED <<campStatus, sentCount, sentEmails, page, obs>>
    /\ UNCHANGED <<form, transport, tracking>>

MarkSending(s) ==
    /\ inv[s].pc = "marksending"
    /\ qStatus' = QueueUpdate(inv[s].item, "sending")
    /\ inv' = [inv EXCEPT ![s].pc = "smtp"]
    /\ UNCHANGED <<campStatus, sentCount, sentEmails, page, obs>>
    /\ UNCHANGED <<form, transport, tracking>>

\* await sendEmailViaSMTP(smtp, recipientEmail, subject, body) inside the
\* try: it returns, or it throws and the catch runs
SendEmailViaSMTP(s) ==
    /\ inv[s].pc = "smtp"
    /\ \E out \in Outcomes(inv[s].cfg) :
          /\ delivered' = [delivered EXCEPT ![inv[s].item] =
                              @ + (IF out.connected THEN 1 ELSE 0)]
          /\ inv' = [inv EXCEPT ![s].pc = IF out.ok THEN "marksent" ELSE "markfailed",
                                ![s].calls = inv[s].calls + 1,
                                ![s].smtp = inv[s].smtp + (IF out.connected THEN 1 ELSE 0),
                                ![s].host = IF out.connected THEN SmtpConfig(inv[s]) ELSE @,
                                ![s].err = out.err,
                                ![s].accepted = out.accepted]
    /\ UNCHANGED <<store, page, tried, ctlUsed, hold>>
    /\ UNCHANGED <<form, transport, tracking>>

MarkSent(s) ==
    /\ inv[s].pc = "marksent"
    /\ qStatus' = QueueUpdate(inv[s].item, "sent")
    /\ inv' = [inv EXCEPT ![s].pc = "insert"]
    /\ UNCHANGED <<campStatus, sentCount, sentEmails, page, obs>>
    /\ UNCHANGED <<form, transport, tracking>>

\* insert into sent_emails; a row the unique index rejects is not stored
\* and the returned error is ignored
InsertSentEmail(s) ==
    /\ inv[s].pc = "insert"
    /\ LET r == Recipient(inv[s].item)
           ok == UniqueIndexAccepts(r) IN
       /\ sentEmails' = IF ok
                        THEN Append(sentEmails,
                                    [rcpt |-> r, camp |-> CampaignOf(inv[s].item),
                                     status |-> "sent"])
                        ELSE sentEmails
       /\ inv' = [inv EXCEPT ![s].pc = "readcount", ![s].inserted = ok]
    /\ UNCHANGED <<campStatus, sentCount, qStatus, page, obs>>
    /\ UNCHANGED <<form, transport, tracking>>

\* select sent_count from campaigns
ReadSentCount(s) ==
    /\ inv[s].pc = "readcount"
    /\ inv' = [inv EXCEPT ![s].pc = "writecount",
                          ![s].seen = sentCount[CampaignOf(inv[s].item)]]
    /\ UNCHANGED <<store, page, obs>>
    /\ UNCHANGED <<form, transport, tracking>>

\* update campaigns set sent_count = (the value read) + 1
WriteSentCount(s) ==
    /\ inv[s].pc = "writecount"
    /\ sentCount' = [sentCount EXCEPT ![CampaignOf(inv[s].item)] = inv[s].seen + 1]
    /\ inv' = [inv EXCEPT ![s].pc = "resp", ![s].result = "sent",
                          ![s].counted = TRUE]
    /\ UNCHANGED <<campStatus, qStatus, sentEmails, page, obs>>
    /\ UNCHANGED <<form, transport, tracking>>

\* catch (smtpError): update the queue item to 'failed', answer 500 with
\* the fixed error text "Failed to send email"
MarkFailed(s) ==
    /\ inv[s].pc = "markfailed"
    /\ qStatus' = QueueUpdate(inv[s].item, "failed")
    /\ inv' = [inv EXCEPT ![s].pc = "resp", ![s].result = "failed", ![s].error = 0]
    /\ UNCHANGED <<campStatus, sentCount, sentEmails, page, obs>>
    /\ UNCHANGED <<form, transport, tracking>>

\* --------------------------------------------------- the campaign page
NoQueue == [q \in Items |-> "none"]

\* the Promise.all of fetchCampaign: campaigns row and the queue rows of the
\* campaign ordered by created_at (the item numbers are the creation order)
FetchedQueue(c) == [q \in Items |-> IF q \in ItemsOf(c) THEN qStatus[q] ELSE "none"]

\* currentQueue.filter((q) => q.status === 'pending')
pendingEmails(queue) == {q \in Items : queue[q] = "pending"}

\* window.setTimeout stores the new id in timerRef.current; a timer that is
\* still live under the old id stays live and can no longer be cleared
ArmTimer ==
    IF timerArmed
    THEN leaked' = leaked + 1 /\ UNCHANGED timerArmed
    ELSE timerArmed' = TRUE /\ UNCHANGED leaked

\* processQueue, up to its first await, reading `queue` as queueRef.current.
\* A run is only ever started from a render in which campaign.status is
\* 'running' and queueLoaded is true, and the timer re-invokes that same
\* closure, so the two early returns never apply.
processQueue(queue) ==
    IF pendingEmails(queue) = {}
    THEN /\ completing' = completing + 1
         /\ UNCHANGED <<inv, tried>>
    ELSE /\ FreeSlots # {}
         /\ LET nextEmail == Min(pendingEmails(queue)) IN
            /\ inv' = [inv EXCEPT ![Min(FreeSlots)] = Request(nextEmail)]
            /\ tried' = [tried EXCEPT ![nextEmail] = @ + 1]
         /\ UNCHANGED completing

\* a page load of /campaign/:id : a fresh component instance; fetchCampaign
\* is called by the mount effect.  Timers and promise continuations of the
\* previous page are gone; its invocations keep running on the server.
Mount(c) ==
    /\ mounts < MaxMounts
    /\ ~fetching /\ ctl = "none" /\ completing = 0 /\ dirty = "clean"
    /\ view' = c
    /\ mounts' = mounts + 1
    /\ fetching' = TRUE
    /\ loading' = TRUE
    /\ queueLoaded' = FALSE
    /\ lcStatus' = "null"
    /\ lcSent' = 0
    /\ lq' = NoQueue
    /\ qref' = NoQueue
    /\ isRunningRef' = FALSE
    /\ timerArmed' = FALSE
    /\ leaked' = 0
    /\ inv' = [s \in Slots |-> [inv[s] EXCEPT !.att = FALSE]]
    /\ hold' = FALSE
    /\ UNCHANGED <<store, dirty, ctl, completing, tried, delivered, ctlUsed>>
    /\ UNCHANGED <<form, transport, tracking>>

\* fetchCampaign after its await: setQueue, setCampaign, setQueueLoaded(true)
\* and, in finally, setLoading(false)
fetchCampaign ==
    /\ fetching
    /\ fetching' = FALSE
    /\ lq' = FetchedQueue(view)
    /\ lcStatus' = campStatus[view]
    /\ lcSent' = sentCount[view]
    /\ queueLoaded' = TRUE
    /\ loading' = FALSE
    /\ dirty' = "deps"
    /\ UNCHANGED <<store, inv, view, mounts, qref, isRunningRef, timerArmed,
                   leaked, ctl, completing, obs>>
    /\ UNCHANGED <<form, transport, tracking>>

\* the next render and its effects, in declaration order:
\*   queueRef.current = queue
\*   when a dependency of the start effect changed (campaign, queueLoaded,
\*   loading: processQueue is re-created with every new campaign object):
\*   its cleanup clears the timer in timerRef, then its body starts the
\*   processor when the campaign is running and isRunningRef is false
StartCondition == ~loading /\ queueLoaded /\ lcStatus = "running" /\ ~isRunningRef

Render ==
    /\ dirty # "clean"
    /\ dirty' = "clean"
    /\ qref' = lq
    /\ IF dirty = "deps"
       THEN /\ timerArmed' = FALSE
            /\ IF StartCondition
               THEN isRunningRef' = TRUE /\ processQueue(lq)
               ELSE UNCHANGED <<isRunningRef, inv, tried, completing>>
       ELSE UNCHANGED <<timerArmed, isRunningRef, inv, tried, completing>>
    /\ UNCHANGED <<store, view, mounts, fetching, loading, queueLoaded, lcStatus,
                   lcSent, lq, leaked, ctl, delivered, ctlUsed, hold>>
    /\ UNCHANGED <<form, transport, tracking>>

\* the timer callback: processQueue().  interval_seconds is at least 30, so
\* a pending render always comes first.
TimerFires ==
    /\ timerArmed /\ dirty = "clean"
    /\ timerArmed' = FALSE
    /\ processQueue(qref)
    /\ UNCHANGED <<store, view, mounts, fetching, loading, queueLoaded, lcStatus,
                   lcSent, lq, qref, isRunningRef, leaked, dirty, ctl,
                   delivered, ctlUsed, hold>>
    /\ UNCHANGED <<form, transport, tracking>>

LeakedTimerFires ==
    /\ leaked > 0 /\ dirty = "clean"
    /\ leaked' = leaked - 1
    /\ processQueue(qref)
    /\ UNCHANGED <<store, view, mounts, fetching, loading, queueLoaded, lcStatus,
                   lcSent, lq, qref, isRunningRef, timerArmed, dirty, ctl,
                   delivered, ctlUsed, hold>>
    /\ UNCHANGED <<form, transport, tracking>>

\* processQueue after `await supabase...update({ status: 'completed' })`
CampaignComplete ==
    /\ completing > 0
    /\ completing' = completing - 1
    /\ campStatus' = [campStatus EXCEPT ![view] = "completed"]
    /\ lcStatus' = "completed"
    /\ isRunningRef' = FALSE
    /\ dirty' = "deps"
    /\ UNCHANGED <<sentCount, qStatus, sentEmails, inv, view, mounts, fetching,
                   loading, queueLoaded, lcSent, lq, qref, timerArmed, leaked,
                   ctl, obs>>
    /\ UNCHANGED <<form, transport, tracking>>

\* the response of an invocation.  For the page that sent the request:
\* sendEmail after its await (success: the item is 'sent' locally and the
\* local sent_count is incremented; error: the item is 'failed' locally),
\* then processQueue after `await sendEmail`: re-arm when isRunningRef.
Respond(s) ==
    /\ inv[s].pc = "resp"
    /\ inv' = [inv EXCEPT ![s] = Idle]
    /\ IF inv[s].att
       THEN /\ IF inv[s].result # "failed"
               THEN /\ lq' = [lq EXCEPT ![inv[s].item] = "sent"]
                    /\ lcSent' = lcSent + 1
                    /\ dirty' = "deps"
               ELSE /\ lq' = [lq EXCEPT ![inv[s].item] = "failed"]
                    /\ dirty' = IF dirty = "deps" THEN "deps" ELSE "state"
                    /\ UNCHANGED lcSent
            /\ IF isRunningRef THEN ArmTimer ELSE UNCHANGED <<timerArmed, leaked>>
       ELSE UNCHANGED <<lq, lcSent, dirty, timerArmed, leaked>>
    /\ UNCHANGED <<store, view, mounts, fetching, loading, queueLoaded, lcStatus,
                   qref, isRunningRef, ctl, completing, obs>>
    /\ UNCHANGED <<form, transport, tracking>>

\* ------------------------------------------------------ control handlers
\* a button is clicked on a rendered page, while no campaigns update of
\* the page is awaiting its answer
CanClick ==
    view # 0 /\ ~loading /\ dirty = "clean" /\ ctl = "none" /\ completing = 0

\* Pause is shown while campaign.status is 'running'
handlePause ==
    /\ CanClick /\ lcStatus = "running"
    /\ isRunningRef' = FALSE
    /\ timerArmed' = FALSE
    /\ ctl' = "pause"
    /\ ctlUsed' = TRUE
    /\ hold' = (\E s \in Slots : inv[s].att /\ inv[s].pc # "idle")
    /\ UNCHANGED <<store, inv, view, mounts, fetching, loading, queueLoaded,
                   lcStatus, lcSent, lq, qref, leaked, dirty, completing,
                   tried, delivered>>
    /\ UNCHANGED <<form, transport, tracking>>

\* Resume is shown while 'paused', Start Campaign while 'draft', Continue
\* while 'completed' with pending or sending items in `queue`; all three
\* buttons call handleResume (ctl records which one was clicked)
ResumeShown ==
    \/ lcStatus \in {"paused", "draft"}
    \/ /\ lcStatus = "completed"
       /\ \E q \in Items : lq[q] \in {"pending", "sending"}

handleResume ==
    /\ CanClick /\ ResumeShown
    /\ isRunningRef' = FALSE
    /\ ctl' = IF lcStatus = "completed" THEN "continue" ELSE "resume"
    /\ ctlUsed' = TRUE
    /\ hold' = FALSE
    /\ UNCHANGED <<store, inv, view, mounts, fetching, loading, queueLoaded,
                   lcStatus, lcSent, lq, qref, timerArmed, leaked, dirty,
                   completing, tried, delivered>>
    /\ UNCHANGED <<form, transport, tracking>>

\* Stop is shown while 'running' or 'paused'
handleStop ==
    /\ CanClick /\ lcStatus \in {"running", "paused"}
    /\ isRunningRef' = FALSE
    /\ timerArmed' = FALSE
    /\ ctl' = "stop"
    /\ ctlUsed' = TRUE
    /\ hold' = FALSE
    /\ UNCHANGED <<store, inv, view, mounts, fetching, loading, queueLoaded,
                   lcStatus, lcSent, lq, qref, leaked, dirty, completing,
                   tried, delivered>>
    /\ UNCHANGED <<form, transport, tracking>>

\* status each handler writes to campaigns.status and to `campaign`
ControlStatusStopPauses(h) == IF h \in {"pause", "stop"} THEN "paused" ELSE "running"
ControlStatus(h) ==
    CASE h = "pause" -> "paused"
      [] h \in {"resume", "continue"} -> "running"
      [] h = "stop" -> "completed"

\* a control handler after its await: the campaigns row is updated, then
\* setCampaign
ControlDone ==
    /\ ctl # "none"
    /\ campStatus' = [campStatus EXCEPT ![view] = ControlStatus(ctl)]
    /\ lcStatus' = ControlStatus(ctl)
    /\ dirty' = "deps"
    /\ ctl' = "none"
    /\ UNCHANGED <<sentCount, qStatus, sentEmails, inv, view, mounts, fetching,
                   loading, queueLoaded, lcSent, lq, qref, isRunningRef,
                   timerArmed, leaked, completing, obs>>
    /\ UNCHANGED <<form, transport, tracking>>

\* ------------------------------------------------------------------ Next
Handler(s) ==
    \/ ReadQueueItem(s)
    \/ CheckExistingSent(s)
    \/ MarkSkipped(s)
    \/ MarkSending(s)
    \/ SendEmailViaSMTP(s)
    \/ MarkSent(s)
    \/ InsertSentEmail(s)
    \/ ReadSentCount(s)
    \/ WriteSentCount(s)
    \/ MarkFailed(s)

Next ==
    \/ \E c \in Campaigns : Mount(c)
    \/ fetchCampaign
    \/ Render
    \/ TimerFires
    \/ LeakedTimerFires
    \/ CampaignComplete
    \/ handlePause
    \/ handleResume
    \/ handleStop
    \/ ControlDone
    \/ \E s \in Slots : Handler(s)
    \/ \E s \in Slots : Respond(s)

Spec == Init /\ [][Next]_vars

\* ------------------------------------------ the handler under any caller
\* send-email is an HTTP endpoint: any client holding the user's token
\* (another tab, another device, a retry) can post a request for any queue
\* item of the user's campaigns at any time.
Requests == tried[1] + tried[2] + tried[3] + tried[4]

Invoke(q) ==
    /\ qStatus[q] # "none"
    /\ FreeSlots # {}
    /\ Requests < MaxRequests
    /\ inv' = [inv EXCEPT ![Min(FreeSlots)] = [Request(q) EXCEPT !.att = FALSE]]
    /\ tried' = [tried EXCEPT ![q] = @ + 1]
    /\ UNCHANGED <<store, page, delivered, ctlUsed, hold>>
    /\ UNCHANGED <<form, transport, tracking>>

NextServer ==
    \/ \E q \in Items : Invoke(q)
    \/ \E s \in Slots : Handler(s)
    \/ \E s \in Slots : Respond(s)

SpecServer == Init /\ [][NextServer]_vars

\* both campaigns just submitted, nothing sent yet
InitFresh == Init /\ sentEmails = <<>>

SpecFresh == InitFresh /\ [][Next]_vars

\* ------------------------------------------------- requests of any shape
\* what a client holding the user's token can post: the page's request for
\* queue item 1, that request with one field changed (a malformed field,
\* settings that are missing or fail the transport's checks, another
\* campaign id or none, test mode with and without ids), and one for a
\* queue item id that may have no row
RequestShapes ==
    LET base == [Request(1) EXCEPT !.att = FALSE] IN
    {base, [Request(4) EXCEPT !.att = FALSE]}
    \cup {[base EXCEPT !.bad = b] : b \in {"recipient", "subject", "body"}}
    \cup {[base EXCEPT !.cfg = c] : c \in {"none", "unusable"}}
    \cup {[base EXCEPT !.camp = c] : c \in {0, 2, ForeignCampaign}}
    \cup {[base EXCEPT !.test = TRUE, !.cfg = c] : c \in {"ok", "unusable"}}
    \cup {[base EXCEPT !.test = TRUE, !.item = 0, !.camp = 0]}

InvokeAny(r) ==
    /\ FreeSlots # {}
    /\ Requests < MaxRequests
    /\ inv' = [inv EXCEPT ![Min(FreeSlots)] = r]
    /\ tried' = IF r.item \in Items THEN [tried EXCEPT ![r.item] = @ + 1] ELSE tried
    /\ UNCHANGED <<store, page, delivered, ctlUsed, hold>>
    /\ UNCHANGED <<form, transport, tracking>>

NextRequests ==
    \/ \E r \in RequestShapes : InvokeAny(r)
    \/ \E s \in Slots : Handler(s)
    \/ \E s \in Slots : TestSend(s)
    \/ \E s \in Slots : Respond(s)

SpecRequests == Init /\ [][NextRequests]_vars

\* --------------------------------- requests that carry an `smtp` object
\* the page's request for queue item 1 and a test-mode request, each without
\* and with an `smtp` object naming another host and other credentials (the
\* body the CampaignProgress.tsx revision of the page posts)
ClientSmtpShapes ==
    LET base == [Request(1) EXCEPT !.att = FALSE] IN
    {[base EXCEPT !.test = t, !.client = c] : t \in BOOLEAN, c \in {"none", "other"}}

NextClientSmtp ==
    \/ \E r \in ClientSmtpShapes : InvokeAny(r)
    \/ \E s \in Slots : Handler(s)
    \/ \E s \in Slots : TestSend(s)
    \/ \E s \in Slots : Respond(s)

SpecClientSmtp == Init /\ [][NextClientSmtp]_vars

\* ------------------------------------------- a page load after a broken run
InitReattach ==
    InterruptedRunStore /\ PageClosed /\ FormClosed /\ WireClosed /\ NoTracking

SpecReattach == InitReattach /\ [][Next]_vars

\* ----------------------------------------------- a queue of three items
InitLongQueue ==
    LongQueueStore /\ PageClosed /\ FormClosed /\ WireClosed /\ NoTracking

SpecLongQueue == InitLongQueue /\ [][Next]_vars

\* ------------------------------------------------- the New Campaign form
\* A line of pasted or uploaded text, after input.split(/[\n,;]+/): the
\* address it spells, whether it spells it with capital letters, whether it
\* has blanks around it, and whether the lower-cased text matches
\* /^[^\s@]+@[^\s@]+\.[^\s@]+$/ ; the empty line is EmptyLine.
Line(addr, upper, padded, wellformed) ==
    [addr |-> addr, upper |-> upper, padded |-> padded, wellformed |-> wellformed]
EmptyLine == Line("", FALSE, FALSE, FALSE)

\* line.trim() and .toLowerCase()
Trim(line) == [line EXCEPT !.padded = FALSE]
ToLowerCase(line) == [line EXCEPT !.upper = FALSE]

\* validateEmail: re.test(email.trim().toLowerCase())
validateEmail(email) == ToLowerCase(Trim(email)).wellformed

Range(seq) == {seq[i] : i \in DOMAIN seq}

\* processEmails: the valid addresses of the lines, trimmed and lower-cased,
\* each once, in order of first appearance (`seen`)
RECURSIVE processLines(_, _)
processLines(lines, validEmails) ==
    IF lines = <<>> THEN validEmails
    ELSE LET email == ToLowerCase(Trim(Head(lines))) IN
         IF email # EmptyLine /\ validateEmail(email) /\ email \notin Range(validEmails)
         THEN processLines(Tail(lines), Append(validEmails, email))
         ELSE processLines(Tail(lines), validEmails)

processEmails(input) == processLines(input, <<>>)

\* [...new Set(combined)]: the elements of combined, each once, in order of
\* first appearance
RECURSIVE NewSet(_, _)
NewSet(combined, kept) ==
    IF combined = <<>> THEN kept
    ELSE NewSet(Tail(combined),
                IF Head(combined) \in Range(kept) THEN kept
                ELSE Append(kept, Head(combined)))

Combined(combined) == combined
Spread(combined) == NewSet(combined, <<>>)

\* prev.filter(keep)
RECURSIVE Filter(_, _)
Filter(seq, drop) ==
    IF seq = <<>> THEN <<>>
    ELSE IF Head(seq) \in drop THEN Filter(Tail(seq), drop)
         ELSE <<Head(seq)>> \o Filter(Tail(seq), drop)

\* what a user pastes or uploads: up to two lines, spelling a or b in lower
\* case, a in capitals, a with blanks around it, or no address
Lines ==
    {Line("a", FALSE, FALSE, TRUE), Line("a", TRUE, FALSE, TRUE),
     Line("a", FALSE, TRUE, TRUE), Line("b", FALSE, FALSE, TRUE),
     Line("x", FALSE, FALSE, FALSE)}
FormInputs == {<<l>> : l \in Lines} \cup {<<l, m>> : l, m \in Lines}

\* an address of the input is already listed, or is spelled twice in it
Repeats(prev, input) ==
    \/ \E i \in DOMAIN input : ToLowerCase(Trim(input[i])) \in Range(prev)
    \/ \E i, j \in DOMAIN input :
          i # j /\ ToLowerCase(Trim(input[i])) = ToLowerCase(Trim(input[j]))

\* setEmails((prev) => [...new Set([...prev, ...newEmails])])
AddEmails(input) ==
    /\ emails' = Spread(emails \o processEmails(input))
    /\ repeated' = (repeated \/ Repeats(emails, input))

handlePaste(input) ==
    /\ inputs < MaxInputs
    /\ inputs' = inputs + 1
    /\ AddEmails(input)
    /\ UNCHANGED <<duplicates, reading, submit, campaignRows, queueRows>>
    /\ UNCHANGED <<store, inv, page, obs, transport, tracking>>

\* handleFileUpload: reader.readAsText(file); the list changes in onload
handleFileUpload(input) ==
    /\ inputs < MaxInputs
    /\ inputs' = inputs + 1
    /\ reading' = Append(reading, input)
    /\ UNCHANGED <<emails, duplicates, submit, campaignRows, queueRows, repeated>>
    /\ UNCHANGED <<store, inv, page, obs, transport, tracking>>

onload ==
    /\ reading # <<>>
    /\ reading' = Tail(reading)
    /\ AddEmails(Head(reading))
    /\ UNCHANGED <<duplicates, submit, campaignRows, queueRows, inputs>>
    /\ UNCHANGED <<store, inv, page, obs, transport, tracking>>

removeEmail(emailToRemove) ==
    /\ emailToRemove \in Range(emails)
    /\ emails' = Filter(emails, {emailToRemove})
    /\ UNCHANGED <<duplicates, reading, submit, campaignRows, queueRows,
                   inputs, repeated>>
    /\ UNCHANGED <<store, inv, page, obs, transport, tracking>>

removeDuplicates ==
    /\ duplicates \cap Range(emails) # {}
    /\ emails' = Filter(emails, duplicates)
    /\ UNCHANGED <<duplicates, reading, submit, campaignRows, queueRows,
                   inputs, repeated>>
    /\ UNCHANGED <<store, inv, page, obs, transport, tracking>>

\* the effect on [emails, user]: select recipient_email from sent_emails
\* where recipient_email in (emails), then setDuplicates
checkDuplicates ==
    /\ duplicates' =
          {e \in Range(emails) :
              \E i \in DOMAIN sentEmails : sentEmails[i].rcpt = e.addr}
    /\ duplicates' # duplicates
    /\ UNCHANGED <<emails, reading, submit, campaignRows, queueRows, inputs,
                   repeated>>
    /\ UNCHANGED <<store, inv, page, obs, transport, tracking>>

\* emails.filter((e) => !duplicates.includes(e))
validEmails == Filter(emails, duplicates)

\* rows of email_queue with campaign_id c
QueueOf(c) == {i \in DOMAIN queueRows : queueRows[i].campaign_id = c}

\* handleStartCampaign up to the answer of its first insert: the campaigns
\* row is stored with status 'running' and total_recipients, or the insert
\* fails and nothing is stored.  The button is disabled while `loading`.
handleStartCampaign ==
    /\ submit.pc = "idle"
    /\ validEmails # <<>>
    /\ Len(campaignRows) < MaxCampaigns
    /\ \E campaignError \in BOOLEAN :
          IF campaignError
          THEN UNCHANGED <<campaignRows, submit>>
          ELSE /\ campaignRows' =
                     Append(campaignRows,
                            [status |-> "running",
                             total_recipients |-> Len(validEmails)])
               /\ submit' = [pc |-> "queue", campaign_id |-> Len(campaignRows) + 1,
                             validEmails |-> validEmails]
    /\ UNCHANGED <<emails, duplicates, reading, queueRows, inputs, repeated>>
    /\ UNCHANGED <<store, inv, page, obs, transport, tracking>>

\* the rows validEmails.map(...) inserts for campaign c
queueItems(c, valid) ==
    [i \in DOMAIN valid |->
        [campaign_id |-> c, recipient_email |-> valid[i], status |-> "pending"]]

\* handleStartCampaign after its second insert: the queue rows are stored
\* and the browser navigates to the campaign page (the form is unmounted),
\* or the insert fails, an error is shown and the form stays as it is
InsertQueueItems ==
    /\ submit.pc = "queue"
    /\ \E queueError \in BOOLEAN :
          IF queueError
          THEN /\ submit' = NoSubmit
               /\ UNCHANGED <<queueRows, emails, duplicates, reading>>
          ELSE /\ queueRows' = queueRows \o queueItems(submit.campaign_id,
                                                       submit.validEmails)
               /\ submit' = NoSubmit
               /\ emails' = <<>>
               /\ duplicates' = {}
               /\ reading' = <<>>
    /\ UNCHANGED <<campaignRows, inputs, repeated>>
    /\ UNCHANGED <<store, inv, page, obs, transport, tracking>>

NextNewCampaign ==
    \/ \E input \in FormInputs : handlePaste(input)
    \/ \E input \in FormInputs : handleFileUpload(input)
    \/ onload
    \/ \E e \in Range(emails) : removeEmail(e)
    \/ removeDuplicates
    \/ checkDuplicates
    \/ handleStartCampaign
    \/ InsertQueueItems

SpecNewCampaign == Init /\ [][NextNewCampaign]_vars

\* --------------------------------------------- addresses, headers, message
\* A string is the sequence of its characters; "CR", "LF", "BS" (backslash)
\* and "DQ" (double quote) each stand for one character, a fixed text of
\* the program ("From: ", "<br>") is written as one element, and so is a
\* run of 998 letters ("s998").
IsSpace(ch) == ch \in {" ", "CR", "LF"}
IsLineBreak(ch) == ch \in {"CR", "LF"}

\* value.length
RECURSIVE Length(_)
Length(value) ==
    IF value = <<>> THEN 0
    ELSE (IF Head(value) = "s998" THEN 998 ELSE 1) + Length(Tail(value))

\* value.trim()
RECURSIVE trim(_)
trim(value) ==
    IF value = <<>> THEN value
    ELSE IF IsSpace(Head(value)) THEN trim(Tail(value))
    ELSE IF IsSpace(value[Len(value)]) THEN trim(SubSeq(value, 1, Len(value) - 1))
    ELSE value

\* /^[^\s@]+@[^\s@]+\.[^\s@]+$/.test(email) && email.length <= 254
isValidEmail(email) ==
    /\ \E i, j \in DOMAIN email :
          /\ 1 < i /\ i + 1 < j /\ j < Len(email)
          /\ email[i] = "@" /\ email[j] = "."
          /\ \A k \in DOMAIN email : k # i => (~IsSpace(email[k]) /\ email[k] # "@")
    /\ Length(email) <= 254

\* !(/[\r\n]/.test(subject)) && subject.length <= 998
isValidSubjectLengthOnly(subject) == Length(subject) <= 998
isValidSubject(subject) ==
    /\ \A i \in DOMAIN subject : ~IsLineBreak(subject[i])
    /\ Length(subject) <= 998

\* value.replace(/\\/g, "\\\\").replace(/"/g, "\\\"").replace(/[\r\n]/g, " ")
RECURSIVE escapeHeaderValue(_)
escapeHeaderValue(value) ==
    IF value = <<>> THEN <<>>
    ELSE (CASE Head(value) = "BS" -> <<"BS", "BS">>
            [] Head(value) = "DQ" -> <<"BS", "DQ">>
            [] IsLineBreak(Head(value)) -> <<" ">>
            [] OTHER -> <<Head(value)>>)
         \o escapeHeaderValue(Tail(value))

\* sanitizeHtml: & < > " ' become entities, then every \n becomes <br>
RECURSIVE sanitizeHtml(_)
sanitizeHtml(input) ==
    IF input = <<>> THEN <<>>
    ELSE (CASE Head(input) = "&" -> <<"&amp;">>
            [] Head(input) = "<" -> <<"&lt;">>
            [] Head(input) = ">" -> <<"&gt;">>
            [] Head(input) = "DQ" -> <<"&quot;">>
            [] Head(input) = "'" -> <<"&#x27;">>
            [] Head(input) = "LF" -> <<"<br>">>
            [] OTHER -> <<Head(input)>>)
         \o sanitizeHtml(Tail(input))

\* value.replace(/\r?\n/g, "\r\n")
RECURSIVE normalizeCrlf(_)
normalizeCrlf(value) ==
    IF value = <<>> THEN <<>>
    ELSE IF Len(value) >= 2 /\ value[1] = "CR" /\ value[2] = "LF"
    THEN <<"CR", "LF">> \o normalizeCrlf(Tail(Tail(value)))
    ELSE IF Head(value) = "LF" THEN <<"CR", "LF">> \o normalizeCrlf(Tail(value))
    ELSE <<Head(value)>> \o normalizeCrlf(Tail(value))

\* valueCrlf.replace(/(^|\r\n)\./g, "$1.."): a dot at the start of the value
\* or after CR LF is doubled
RECURSIVE dotStuffFrom(_, _)
dotStuffFrom(value, lineStart) ==
    IF value = <<>> THEN <<>>
    ELSE IF lineStart /\ Head(value) = "."
    THEN <<".", ".">> \o dotStuffFrom(Tail(value), FALSE)
    ELSE IF Len(value) >= 2 /\ value[1] = "CR" /\ value[2] = "LF"
    THEN <<"CR", "LF">> \o dotStuffFrom(Tail(Tail(value)), TRUE)
    ELSE <<Head(value)>> \o dotStuffFrom(Tail(value), FALSE)

dotStuff(valueCrlf) == dotStuffFrom(valueCrlf, TRUE)

\* lines.join("\r\n")
RECURSIVE Join(_)
Join(lines) ==
    IF lines = <<>> THEN <<>>
    ELSE IF Len(lines) = 1 THEN lines[1]
    ELSE lines[1] \o <<"CR", "LF">> \o Join(Tail(lines))

\* `${message}\r\n.\r\n` as sendEmailViaSMTP assembles it from the settings
\* (fromEmail trimmed, fromName), the recipient (trimmed), the subject and
\* the body
Message(fromEmail, smtpFromName, recipientEmail, subject, body) ==
    LET htmlCrlf == dotStuff(normalizeCrlf(sanitizeHtml(body)))
        fromName == trim(smtpFromName)
        fromHeader == IF fromName # <<>>
                      THEN <<"DQ">> \o escapeHeaderValue(fromName) \o <<"DQ", " ", "<">>
                           \o fromEmail \o <<">">>
                      ELSE fromEmail
    IN Join(<< <<"From: ">> \o fromHeader,
               <<"To: <">> \o recipientEmail \o <<">">>,
               <<"Subject: ">> \o subject,
               <<"MIME-Version: 1.0">>,
               <<"Content-Type: text/html; charset=\"UTF-8\"">>,
               <<"Content-Transfer-Encoding: 7bit">>,
               <<>>,
               htmlCrlf,
               <<>> >>)
       \o <<"CR", "LF", ".", "CR", "LF">>

\* the lines of data, each ended by CR LF
RECURSIVE SplitCrlf(_, _)
SplitCrlf(data, line) ==
    IF data = <<>> THEN (IF line = <<>> THEN <<>> ELSE <<line>>)
    ELSE IF Len(data) >= 2 /\ data[1] = "CR" /\ data[2] = "LF"
    THEN <<line>> \o SplitCrlf(Tail(Tail(data)), <<>>)
    ELSE SplitCrlf(Tail(data), Append(line, Head(data)))

\* request and settings values: addresses ...
GoodAddress == <<"a", "@", "b", ".", "c">>
Addresses ==
    {GoodAddress, GoodAddress \o <<"LF">>, <<" ">> \o GoodAddress,
     GoodAddress \o <<"CR", "LF", "B", "c", "c", ":", "x">>}
\* ... subjects (one of 998 characters, one of 999) ...
Subjects ==
    {<<"h", "i">>, <<"h", "i", "LF">>, <<"h", "i", "CR", "LF", "B", "c", "c", ":", "x">>,
     <<"s998">>, <<"s998", "s">>}
\* ... display names ...
FromNames ==
    {<<>>, <<"A", "l">>, <<"A", "DQ", "BS">>,
     <<"A", "l", "CR", "LF", "B", "c", "c", ":", "x">>}
\* ... and bodies
Bodies ==
    {<<"h", "i">>, <<".">>, <<".", "h">>, <<"h", "LF", ".", "LF", "<">>,
     <<"h", "CR", "LF", ".", "CR", "LF">>,
     <<".", "h", "LF", "<", "script", ">", "&", "DQ", "'">>}

\* ------------------------------------------ sendEmailViaSMTP, step by step
\* A line is the sequence of its characters, without its line ending.
Digits == <<"0", "1", "2", "3", "4", "5", "6", "7", "8", "9">>
DigitValue(ch) == (CHOOSE i \in DOMAIN Digits : Digits[i] = ch) - 1
IsDigit(ch) == \E i \in DOMAIN Digits : Digits[i] = ch

\* the three characters a server writes for reply code n
CodeStr(n) == <<Digits[(n \div 100) + 1], Digits[((n \div 10) % 10) + 1],
                Digits[(n % 10) + 1]>>

\* what the mail server sends for one reply with code n: one line, or a
\* continuation line and a final line
OneLine(n) == <<CodeStr(n) \o <<" ", "o", "k">>>>
TwoLines(n) == <<CodeStr(n) \o <<"-", "o", "k">>, CodeStr(n) \o <<" ", "o", "k">>>>

\* Number(codeStr) for a string of digits, blanks and other characters:
\* blanks around it are ignored, the empty string is 0, a string of digits
\* is its decimal value, anything else is NaN (finite FALSE)
RECURSIVE Decimal(_)
Decimal(ds) ==
    IF ds = <<>> THEN 0
    ELSE 10 * Decimal(SubSeq(ds, 1, Len(ds) - 1)) + DigitValue(ds[Len(ds)])

RECURSIVE StripBlanks(_)
StripBlanks(cs) ==
    IF cs = <<>> THEN cs
    ELSE IF Head(cs) = " " THEN StripBlanks(Tail(cs))
    ELSE IF cs[Len(cs)] = " " THEN StripBlanks(SubSeq(cs, 1, Len(cs) - 1))
    ELSE cs

Number(cs) ==
    LET t == StripBlanks(cs) IN
    IF \A i \in DOMAIN t : IsDigit(t[i])
    THEN [finite |-> TRUE, value |-> Decimal(t)]
    ELSE [finite |-> FALSE, value |-> 0]

\* first.slice(0, 3) and line.startsWith(prefix)
Slice3(line) == SubSeq(line, 1, IF Len(line) < 3 THEN Len(line) ELSE 3)
startsWith(line, prefix) ==
    Len(line) >= Len(prefix) /\ SubSeq(line, 1, Len(prefix)) = prefix

\* the while (true) loop of readResponse: the index of the first line from
\* i on that starts with the code and a blank, 0 when the lines end first
RECURSIVE readUntilFinal(_, _, _)
readUntilFinal(lines, codeStr, i) ==
    IF i > Len(lines) THEN 0
    ELSE IF startsWith(lines[i], codeStr \o <<" ">>) THEN i
    ELSE readUntilFinal(lines, codeStr, i + 1)

\* readResponse on the lines the connection delivers from now on: a reply
\* (its code, the number of lines used), "invalid" (it throws "SMTP invalid
\* response"), or "closed" (readLine throws: conn.read returned null)
readResponse(lines) ==
    IF lines = <<>> THEN [outcome |-> "closed", code |-> 0, used |-> 0]
    ELSE LET first == lines[1]
             codeStr == Slice3(first)
             code == Number(codeStr)
         IN IF ~code.finite
            THEN [outcome |-> "invalid", code |-> 0, used |-> 1]
            ELSE IF Len(first) >= 4 /\ first[4] = "-"
            THEN LET last == readUntilFinal(lines, codeStr, 2) IN
                 IF last = 0
                 THEN [outcome |-> "closed", code |-> code.value, used |-> Len(lines)]
                 ELSE [outcome |-> "reply", code |-> code.value, used |-> last]
            ELSE [outcome |-> "reply", code |-> code.value, used |-> 1]

\* The steps of sendEmailViaSMTP after connecting, for each encryption:
\* "tls" upgrades the connection after STARTTLS, "ssl" connects with TLS,
\* "none" (and any other stored value) stays in plain text.
Encryptions == {"tls", "ssl", "none"}
LoginSteps == {"AUTH LOGIN", "username", "password"}

NextStep(step, encryption) ==
    CASE step = "greeting" -> "EHLO"
      [] step = "EHLO" -> IF encryption = "tls" THEN "STARTTLS" ELSE "AUTH LOGIN"
      [] step = "STARTTLS" -> "startTls"
      [] step = "startTls" -> "EHLO again"
      [] step = "EHLO again" -> "AUTH LOGIN"
      [] step = "AUTH LOGIN" -> "username"
      [] step = "username" -> "password"
      [] step \in {"password", "AUTH PLAIN"} -> "MAIL FROM"
      [] step = "MAIL FROM" -> "RCPT TO"
      [] step = "RCPT TO" -> "DATA"
      [] step = "DATA" -> "message"
      [] step = "message" -> "end-of-data"
      [] step = "end-of-data" -> "QUIT"
      [] step = "QUIT" -> "finally"

\* the command a step writes, as readExpected names it
Command(step) == IF step = "EHLO again" THEN "EHLO" ELSE step

\* this.pending = "" in startTls
UpgradeKeepsPending(pending) == pending
Upgrade(pending) == <<>>

\* finally { wire.close() }: the connection after the try block was left
OnlyOnReturn(thrown) == IF thrown THEN "open" ELSE "closed"
Finally(thrown) == "closed"

\* a run that has connected: nothing read, nothing written
Connected(encryption, script) ==
    [pc |-> "greeting", encryption |-> encryption, conn |-> "open",
     tls |-> (encryption = "ssl"), pending |-> <<>>, incoming |-> script,
     stale |-> 0, staleUsed |-> FALSE, written |-> <<>>, replies |-> <<>>,
     data |-> <<>>, thrown |-> FALSE, err |-> 0]

\* a run that threw before it had a connection
NotConnected == [NoWire EXCEPT !.pc = "thrown"]

\* the ways readResponse can run on wire w: it uses the buffered lines
\* first; each conn.read it needs returns some of the lines the server has
\* still to send, at least up to the end of the reply
Reads(w) ==
    LET stream == w.pending \o w.incoming
        r == readResponse(stream)
        need == IF r.used > Len(w.pending) THEN r.used - Len(w.pending) ELSE 0
        fetched == IF r.outcome = "closed" THEN {Len(w.incoming)}
                   ELSE IF need = 0 THEN {0}
                   ELSE need..Len(w.incoming)
    IN {[outcome |-> r.outcome, code |-> r.code, used |-> r.used,
         pending |-> SubSeq(stream, r.used + 1, Len(w.pending) + f),
         incoming |-> SubSeq(w.incoming, f + 1, Len(w.incoming))] : f \in fetched}

\* assertExpected
Accepted(rd, step) == rd.outcome = "reply" /\ rd.code \in Expected(Command(step))

\* wire w after readExpected(expected, step) ran as rd: on to the next step;
\* or it threw, which inside the AUTH LOGIN try leads to AUTH PLAIN and
\* anywhere else leaves the try block
AfterRead(w, step, rd) ==
    LET v == [w EXCEPT !.pending = rd.pending, !.incoming = rd.incoming,
                       !.stale = IF w.stale > rd.used THEN w.stale - rd.used ELSE 0,
                       !.staleUsed = (w.staleUsed \/ (w.stale > 0 /\ rd.used > 0)),
                       !.replies = Append(w.replies,
                                          [step |-> Command(step),
                                           code |-> IF rd.outcome = "reply"
                                                    THEN rd.code ELSE 0])]
    IN IF Accepted(rd, step) THEN [v EXCEPT !.pc = NextStep(step, w.encryption)]
       ELSE IF step \in LoginSteps THEN [v EXCEPT !.pc = "AUTH PLAIN"]
       ELSE [v EXCEPT !.pc = "finally", !.thrown = TRUE,
                      !.err = IF rd.outcome = "reply" THEN rd.code ELSE 0]

\* wire w after a conn.write that threw
AfterWriteError(w, step) ==
    IF step \in LoginSteps THEN [w EXCEPT !.pc = "AUTH PLAIN"]
    ELSE [w EXCEPT !.pc = "finally", !.thrown = TRUE]

\* the replies of a server, one code per step that is answered, as lines:
\* the reply to EHLO has two lines
RECURSIVE ToLines(_, _)
ToLines(codes, i) ==
    IF i > Len(codes) THEN <<>>
    ELSE (IF i = 2 THEN TwoLines(codes[i]) ELSE OneLine(codes[i]))
         \o ToLines(codes, i + 1)

\* the replies for encryption "tls": 220 to STARTTLS and 250 to the second
\* EHLO after the first EHLO
WithStartTls(codes) ==
    IF Len(codes) < 2 THEN codes
    ELSE SubSeq(codes, 1, 2) \o <<220, 250>> \o SubSeq(codes, 3, Len(codes))

\* a server that follows one of ServerScripts, or follows it up to some
\* reply and then closes the connection or answers 554
Interrupted(codes) ==
    {SubSeq(codes, 1, k) : k \in 0..Len(codes)}
    \cup {SubSeq(codes, 1, k - 1) \o <<554>> : k \in 1..Len(codes)}

WireScripts(encryption) ==
    UNION {{ToLines(cs, 1) :
               cs \in Interrupted(IF encryption = "tls" THEN WithStartTls(codes)
                                  ELSE codes)} : codes \in ServerScripts}

\* sendEmailViaSMTP up to `new SmtpWire(conn, smtp.host)`: the checks of the
\* settings, then Deno.connect or Deno.connectTls, which can fail
Connect ==
    /\ wire.pc = "none"
    /\ \/ \E encryption \in Encryptions :
             \E script \in WireScripts(encryption) :
                wire' = Connected(encryption, script)
       \/ wire' = NotConnected
    /\ UNCHANGED <<store, inv, page, obs, form, letter, tracking>>

\* await wire.readExpected(220, "greeting") and, after the message,
\* await wire.readExpected(250, "end-of-data")
ReadExpected ==
    /\ wire.pc \in {"greeting", "end-of-data"}
    /\ \E rd \in Reads(wire) : wire' = AfterRead(wire, wire.pc, rd)
    /\ UNCHANGED <<store, inv, page, obs, form, letter, tracking>>

\* await wire.cmd(command, expected): conn.write, then readExpected
Cmd ==
    /\ wire.pc \in {"EHLO", "STARTTLS", "EHLO again", "AUTH LOGIN", "username",
                    "password", "AUTH PLAIN", "MAIL FROM", "RCPT TO", "DATA",
                    "QUIT"}
    /\ \/ \E rd \in Reads(wire) :
             wire' = AfterRead([wire EXCEPT !.written = Append(@, Command(wire.pc))],
                               wire.pc, rd)
       \/ wire' = AfterWriteError(wire, wire.pc)
    /\ UNCHANGED <<store, inv, page, obs, form, letter, tracking>>

\* await wire.startTls(): Deno.startTls replaces the connection and the
\* buffer is emptied, or it throws
StartTls ==
    /\ wire.pc = "startTls"
    /\ \/ wire' = [wire EXCEPT !.pc = NextStep("startTls", wire.encryption),
                               !.tls = TRUE,
                               !.pending = Upgrade(wire.pending),
                               !.stale = Len(Upgrade(wire.pending))]
       \/ wire' = [wire EXCEPT !.pc = "finally", !.thrown = TRUE]
    /\ UNCHANGED <<store, inv, page, obs, form, letter, tracking>>

\* await wire.writeRaw(`${message}\r\n.\r\n`), for any body
WriteRaw ==
    /\ wire.pc = "message"
    /\ \/ \E body \in Bodies :
             wire' = [wire EXCEPT !.pc = NextStep("message", wire.encryption),
                                  !.written = Append(@, "message"),
                                  !.data = Message(GoodAddress, <<"A", "l">>,
                                                   GoodAddress, <<"h", "i">>, body)]
       \/ wire' = AfterWriteError(wire, "message")
    /\ UNCHANGED <<store, inv, page, obs, form, letter, tracking>>

\* finally { wire.close() }, then the function returns or the error
\* propagates
Close ==
    /\ wire.pc = "finally"
    /\ wire' = [wire EXCEPT !.pc = IF wire.thrown THEN "thrown" ELSE "returned",
                            !.conn = Finally(wire.thrown)]
    /\ UNCHANGED <<store, inv, page, obs, form, letter, tracking>>

NextDeliver ==
    \/ Connect
    \/ ReadExpected
    \/ Cmd
    \/ StartTls
    \/ WriteRaw
    \/ Close

SpecDeliver == Init /\ [][NextDeliver]_vars

\* ------------------------------------------------ readResponse on any lines
\* lines a server can send: a final line, a continuation line and a line
\* that is the bare code, for two codes; a line that starts with no code;
\* an empty line
ReplyLines ==
    {CodeStr(n) \o rest : n \in {250, 220}, rest \in {<<" ", "o", "k">>, <<"-", "o", "k">>, <<>>}}
    \cup {<<"o", "k">>, <<>>}

\* up to three lines
LineSeqs ==
    {<<l>> : l \in ReplyLines}
    \cup {<<l, m>> : l, m \in ReplyLines}
    \cup {<<l, m, n>> : l, m, n \in ReplyLines}

\* a connection on which the server sends the given lines and then closes
Listen(lines) ==
    /\ wire.pc = "none"
    /\ wire' = [pc |-> "readResponse", lines |-> lines, pending |-> <<>>,
                incoming |-> lines]
    /\ UNCHANGED <<store, inv, page, obs, form, letter, tracking>>

\* one call of readResponse
ReadResponse ==
    /\ wire.pc = "readResponse"
    /\ \E rd \in Reads(wire) :
          wire' = [wire EXCEPT !.pc = "read", !.pending = rd.pending,
                               !.incoming = rd.incoming] @@ [result |-> rd]
    /\ UNCHANGED <<store, inv, page, obs, form, letter, tracking>>

NextReply ==
    \/ \E lines \in LineSeqs : Listen(lines)
    \/ ReadResponse

SpecReply == Init /\ [][NextReply]_vars

\* --------------------------------------- a message, from request to DATA
\* the request fields of any caller and the stored settings of the user
MailInputs ==
    [recipientEmail : Addresses, subject : Subjects, body : Bodies,
     fromEmail : Addresses, fromName : FromNames]

\* the handler has the request body and the user's settings row
Post(input) ==
    /\ letter.pc = "none"
    /\ letter' = [pc |-> "request", given |-> input, fromEmail |-> <<>>,
                recipientEmail |-> <<>>, data |-> <<>>]
    /\ UNCHANGED <<store, inv, page, obs, form, wire, tracking>>

\* the handler's checks of recipientEmail, subject and body
ValidateFields ==
    /\ letter.pc = "request"
    /\ letter' = [letter EXCEPT !.pc =
                  IF /\ isValidEmail(letter.given.recipientEmail)
                     /\ letter.given.subject # <<>> /\ isValidSubject(letter.given.subject)
                     /\ letter.given.body # <<>> /\ Length(letter.given.body) <= 100000
                  THEN "validated" ELSE "rejected"]
    /\ UNCHANGED <<store, inv, page, obs, form, wire, tracking>>

\* sendEmailViaSMTP before it connects: both addresses are trimmed and
\* checked
CheckAddresses ==
    /\ letter.pc = "validated"
    /\ LET fromEmail == trim(letter.given.fromEmail)
           recipientEmail == trim(letter.given.recipientEmail)
       IN letter' = [letter EXCEPT !.fromEmail = fromEmail,
                               !.recipientEmail = recipientEmail,
                               !.pc = IF isValidEmail(fromEmail)
                                         /\ isValidEmail(recipientEmail)
                                      THEN "checked" ELSE "thrown"]
    /\ UNCHANGED <<store, inv, page, obs, form, wire, tracking>>

\* sendEmailViaSMTP after the 354 reply: the message is assembled and
\* written
ComposeMessage ==
    /\ letter.pc = "checked"
    /\ letter' = [letter EXCEPT !.pc = "composed",
                            !.data = Message(letter.fromEmail, letter.given.fromName,
                                             letter.recipientEmail, letter.given.subject,
                                             letter.given.body)]
    /\ UNCHANGED <<store, inv, page, obs, form, wire, tracking>>

NextCompose ==
    \/ \E input \in MailInputs : Post(input)
    \/ ValidateFields
    \/ CheckAddresses
    \/ ComposeMessage

SpecCompose == Init /\ [][NextCompose]_vars

\* ------------------------------------- a run without pause, resume or stop
\* the page and the handler when no control button is clicked; no timer id
\* is overwritten in such a run, so no leaked timer exists
NextRun ==
    \/ \E c \in Campaigns : Mount(c)
    \/ fetchCampaign
    \/ Render
    \/ TimerFires
    \/ CampaignComplete
    \/ \E s \in Slots : Handler(s)
    \/ \E s \in Slots : Respond(s)

\* every awaited call returns (store queries, the send-email invocation and
\* its steps, the campaigns update of processQueue), every scheduled render
\* happens and every armed timer fires
Fairness ==
    /\ WF_vars(fetchCampaign)
    /\ WF_vars(Render)
    /\ WF_vars(TimerFires)
    /\ WF_vars(CampaignComplete)
    /\ \A s \in Slots : WF_vars(Handler(s)) /\ WF_vars(Respond(s))

\* the campaigns as submitted with two or with three recipients
InitRun == Init \/ InitLongQueue

SpecRun == InitRun /\ [][NextRun]_vars /\ Fairness

\* ------------------------------------------------------------ track-event
\* tracking_token UUID DEFAULT gen_random_uuid(): the insert of send-email
\* names no token, so every row gets a fresh one; the token of the i-th row
\* is written i
TrackingToken(i) == i
\* a well-formed UUID that is the token of no row
NoSuchToken == 9
Tokens == {TrackingToken(1), TrackingToken(2), NoSuchToken}
EventTypes == {"open", "click"}

\* a request with a token and an event type that pass the format checks
TrackEvent(token, eventType) ==
    /\ \E t \in TrackSlots : track[t].pc = "idle"
    /\ tracked < MaxEvents
    /\ tracked' = tracked + 1
    /\ track' = [track EXCEPT ![Min({t \in TrackSlots : track[t].pc = "idle"})] =
                    [pc |-> "find", token |-> token, eventType |-> eventType,
                     id |-> 0]]
    /\ UNCHANGED <<trackingEvents, openedAt, clickedAt, now>>
    /\ UNCHANGED <<store, inv, page, obs, form, transport>>

\* select id from sent_emails where tracking_token = token; when there is
\* no such row the handler answers success and does nothing more
FindSentEmail(t) ==
    /\ track[t].pc = "find"
    /\ track' = [track EXCEPT ![t] =
                    IF \E i \in DOMAIN sentEmails : TrackingToken(i) = track[t].token
                    THEN [track[t] EXCEPT !.pc = "insert", !.id = track[t].token]
                    ELSE NoTrack]
    /\ UNCHANGED <<trackingEvents, openedAt, clickedAt, now, tracked>>
    /\ UNCHANGED <<store, inv, page, obs, form, transport>>

\* insert into tracking_events (sent_email_id, event_type, ...)
InsertTrackingEvent(t) ==
    /\ track[t].pc = "insert"
    /\ trackingEvents' = Append(trackingEvents,
                                [sent_email_id |-> track[t].id,
                                 event_type |-> track[t].eventType])
    /\ track' = [track EXCEPT ![t].pc = "update"]
    /\ UNCHANGED <<openedAt, clickedAt, now, tracked>>
    /\ UNCHANGED <<store, inv, page, obs, form, transport>>

\* .is(column, null): "Only update if not already set"
OnlyIfNull(at) == at = 0

\* update sent_emails set opened_at | clicked_at = new Date() where id = id
\* and the column is null
UpdateTimestamp(t) ==
    /\ track[t].pc = "update"
    /\ LET id == track[t].id IN
       /\ openedAt' = IF track[t].eventType = "open" /\ OnlyIfNull(openedAt[id])
                       THEN [openedAt EXCEPT ![id] = now] ELSE openedAt
       /\ clickedAt' = IF track[t].eventType = "click" /\ OnlyIfNull(clickedAt[id])
                        THEN [clickedAt EXCEPT ![id] = now] ELSE clickedAt
    /\ now' = now + 1
    /\ track' = [track EXCEPT ![t] = NoTrack]
    /\ UNCHANGED <<trackingEvents, tracked>>
    /\ UNCHANGED <<store, inv, page, obs, form, transport>>

\* tracking requests arrive while one send-email request, for queue item 1,
\* is served
NextTrack ==
    \/ \E token \in Tokens, eventType \in EventTypes : TrackEvent(token, eventType)
    \/ \E t \in TrackSlots : FindSentEmail(t)
    \/ \E t \in TrackSlots : InsertTrackingEvent(t)
    \/ \E t \in TrackSlots : UpdateTimestamp(t)
    \/ Requests = 0 /\ Invoke(1)
    \/ \E s \in Slots : Handler(s)
    \/ \E s \in Slots : Respond(s)

SpecTrack == Init /\ [][NextTrack]_vars

\* ============================================================== properties
Attached == {s \in Slots : inv[s].att /\ inv[s].pc # "idle"}
SentItems(c) == {q \in ItemsOf(c) : qStatus[q] = "sent"}
SentRecords(r) ==
    {i \in DOMAIN sentEmails : sentEmails[i].rcpt = r /\ sentEmails[i].status = "sent"}
\* a slot goes from idle to a new request of the page: a tick attempts q
TickStarts(s) == inv[s].pc = "idle" /\ inv'[s].pc = "start" /\ inv'[s].att

\* C1: in every reachable state, for every campaign, the persisted
\* sent_count equals the number of its queue items whose status is sent
C1_SentCountMatchesSentItems ==
    \A c \in Campaigns : sentCount[c] = Cardinality(SentItems(c))

\* C2: at most one tick of a campaign (an invocation the open page is
\* waiting for) is in flight at any time
C2_OneTickInFlight ==
    \A c \in Campaigns :
        Cardinality({s \in Attached : CampaignOf(inv[s].item) = c}) <= 1

\* C3: whenever a tick starts a delivery attempt for a queue item, no
\* earlier-created queue item of the same campaign is still pending
C3_FifoOrder ==
    [][\A s \in Slots :
          TickStarts(s) =>
             \A p \in ItemsOf(CampaignOf(inv'[s].item)) :
                 p < inv'[s].item => qStatus[p] # "pending"]_vars

\* the page has nothing in flight and nothing scheduled
Quiescent ==
    /\ view # 0 /\ ~fetching /\ ~loading /\ dirty = "clean"
    /\ ctl = "none" /\ completing = 0
    /\ ~timerArmed /\ leaked = 0
    /\ Attached = {}

\* C4: from a running campaign with N pending items and with no pause or
\* stop, once the scheduler has come to rest it has attempted every queue
\* item of the campaign exactly once
C4_EveryItemAttemptedOnce ==
    (Quiescent /\ ~ctlUsed) =>
        \A q \in ItemsOf(view) : qStatus[q] # "none" => tried[q] = 1

AllowedTransitions ==
    {<<"pending", "sending">>, <<"sending", "sent">>,
     <<"sending", "skipped">>, <<"sending", "failed">>}

\* C5: every change of a queue item's persisted status is pending ->
\* sending or sending -> sent, skipped or failed
C5_StatusTransitions ==
    [][\A q \in Items :
          qStatus'[q] # qStatus[q] =>
             <<qStatus[q], qStatus'[q]>> \in AllowedTransitions]_vars

\* C6 (as amended): an invocation that finds its queue item already sent
\* answers "Already processed" with skipped false, and opens no transport
\* connection, inserts no SentRecord and writes no sent_count
C6_SecondSendIsNoOp ==
    \A s \in Slots :
        inv[s].saw = "sent" =>
            /\ inv[s].pc = "resp"
            /\ inv[s].result = "already"
            /\ ~inv[s].skipped
            /\ inv[s].calls = 0 /\ inv[s].smtp = 0
            /\ ~inv[s].inserted /\ ~inv[s].counted

\* a second invocation for item 1 found it sent, after the first one
\* delivered it, recorded it and counted it
C6_Witness ==
    \E s \in Slots :
        /\ inv[s].item = 1 /\ inv[s].saw = "sent" /\ inv[s].pc = "resp"
        /\ tried[1] = 2 /\ delivered[1] = 1
        /\ sentCount[1] = 1 /\ Len(sentEmails) = 1

\* C6 as stated: the second invocation's response reports skipped
C6_SecondSendReportsSkipped ==
    \A s \in Slots : inv[s].saw = "sent" => inv[s].skipped

\* C7: when the duplicate guard finds a sent SentRecord, the send operation
\* leaves the queue item in status skipped
C7_DuplicateMarkedSkipped ==
    [][\A s \in Slots :
          (inv[s].pc = "skip" /\ inv'[s].pc = "resp") =>
              qStatus'[inv[s].item] = "skipped"]_vars

\* C8: for every recipient of the user at most one SentRecord with status
\* sent exists
C8_OneSentRecordPerRecipient ==
    \A q \in Items : Cardinality(SentRecords(Recipient(q))) <= 1

\* the invocation for item 3 (campaign 2) delivered to a, found no sent
\* record in its duplicate check, and its insert was rejected because the
\* invocation for item 1 (campaign 1) had inserted its record for a
C8_Witness ==
    \E s \in Slots :
        /\ inv[s].item = 3 /\ inv[s].pc = "readcount" /\ ~inv[s].inserted
        /\ \E i \in DOMAIN sentEmails :
              sentEmails[i].rcpt = "a" /\ sentEmails[i].camp = 1

\* C9: for one queue item at most one delivery attempt is made
C9_AtMostOneDelivery ==
    \A q \in Items : delivered[q] <= 1

\* C10: after a pause requested during a delivery, no tick starts until a
\* resume; and a tick started after a control request attempts a queue item
\* that is still pending
C10_PauseHoldsAndResumeContinues ==
    [][\A s \in Slots :
          TickStarts(s) =>
             /\ ~(hold /\ hold')
             /\ (ctlUsed => qStatus[inv'[s].item] = "pending")]_vars

\* ------------------------------------------------ campaign status changes
\* a control handler's campaigns update is applied in this step
ControlApplied(h) == ctl = h /\ ctl' = "none"

\* C11: a campaign whose persisted status is completed never changes status
\* again, whatever operation runs
C11_CompletedIsTerminal ==
    [][\A c \in Campaigns :
          campStatus[c] = "completed" => campStatus'[c] = "completed"]_vars

\* C12: a completed campaign returns to running only through the Continue
\* button, and that button is clicked only while the page lists pending or
\* sending items of the campaign
C12_ReopenedOnlyByContinue ==
    [][/\ \A c \in Campaigns :
            (campStatus[c] = "completed" /\ campStatus'[c] = "running") =>
                ControlApplied("continue")
       /\ (ctl = "none" /\ ctl' = "continue") =>
            \E q \in ItemsOf(view) : lq[q] \in {"pending", "sending"}]_vars

\* C13: the update of a Pause click changes the persisted status only when
\* that status is running, and the update of a Resume or Start click only
\* when it is draft or paused
C13_PauseResumeGuarded ==
    [][/\ ControlApplied("pause") =>
            (campStatus[view] = "running" \/ campStatus' = campStatus)
       /\ ControlApplied("resume") =>
            (campStatus[view] \in {"draft", "paused"} \/ campStatus' = campStatus)]_vars

\* C14: the update of a Stop click (made on a campaign shown as running or
\* paused) sets the persisted status to completed whatever queue items
\* remain, and changes no queue item, SentRecord or counter
C14_StopCompletesAndKeepsQueue ==
    [][ControlApplied("stop") =>
          /\ campStatus'[view] = "completed"
          /\ qStatus' = qStatus
          /\ sentEmails' = sentEmails /\ sentCount' = sentCount]_vars

\* Stop has just been applied to a campaign that still has a pending item:
\* the processor did not complete it, since its queue lists that item as
\* pending
C14_Witness ==
    /\ view # 0 /\ ctlUsed /\ ctl = "none"
    /\ campStatus[view] = "completed" /\ lcStatus = "completed" /\ dirty = "deps"
    /\ \E q \in ItemsOf(view) :
          qStatus[q] = "pending" /\ lq[q] = "pending" /\ qref[q] = "pending"

\* ------------------------------------------------------- reattach, failure
\* an item that is 'sending' although no request of this page load or of any
\* other current caller was made for it: left over from an interrupted run
LeftSending(q) == qStatus[q] = "sending" /\ tried[q] = 0

\* C15: after a (re)attach to a running campaign no tick runs while a queue
\* item left over from an interrupted run is still sending (reconciliation
\* has set it to failed before the first tick), and such an item is never
\* put back to pending
C15_SendingReconciledBeforeFirstTick ==
    [][/\ \A s \in Slots :
            TickStarts(s) =>
                \A q \in ItemsOf(CampaignOf(inv'[s].item)) : ~LeftSending(q)
       /\ \A q \in Items : LeftSending(q) => qStatus'[q] # "pending"]_vars

\* a delivery attempt of the open page failed
FailedAttempt == \E q \in ItemsOf(view) : tried[q] >= 1 /\ lq[q] = "failed"

\* C16: after a failed delivery attempt, with no pause or stop, the
\* scheduler does not come to rest before every queue item of the campaign
\* has been attempted: the failure is followed by the ticks for the items
\* still pending
C16_FailureDoesNotStopQueue ==
    (Quiescent /\ ~ctlUsed /\ FailedAttempt) =>
        \A q \in ItemsOf(view) : qStatus[q] # "none" => tried[q] >= 1

\* ------------------------------------------------- outcomes of one request
\* the invocation in slot s takes a step
Steps(s) == inv'[s] # inv[s]

C18_TestModeChangesNothing ==
    [][\A s \in Slots :
          (inv'[s].test /\ ValidateRequest(inv'[s]) = "ok") =>
              /\ Steps(s) => UNCHANGED store
              /\ inv'[s].pc \in {"start", "test", "resp"}
              /\ inv'[s].saw = "none"
              /\ inv'[s].pc = "resp" =>
                    /\ inv'[s].calls = 1 /\ inv'[s].smtp <= 1
                    /\ inv'[s].result \in {"test sent", "test failed"}]_vars

\* a test-mode request naming queue item 1 was delivered to a, although a
\* sent SentRecord for a exists, and item 1 is still pending
C18_Witness ==
    \E s \in Slots :
        /\ inv[s].test /\ inv[s].item = 1 /\ inv[s].pc = "resp"
        /\ inv[s].result = "test sent" /\ inv[s].smtp = 1
        /\ ExistingSent("a") /\ qStatus[1] = "pending" /\ Len(sentEmails) = 1

\* the campaign is not the caller's, or the queue item is not a row of the
\* named campaign
NotOwned(r) ==
    /\ r.item # 0 /\ r.camp # 0
    /\ \/ r.camp \notin Campaigns
       \/ CampaignOf(r.item) # r.camp
       \/ qStatus[r.item] = "none"

\* C19: a campaign-mode request that passes validation and names a campaign
\* of another user, or a queue item that is not of the named campaign, is
\* answered 404 with no call of the transport, and none of its steps changes
\* a queue item, a SentRecord or a counter
C19_NotOwnedRejected ==
    [][\A s \in Slots :
          (~inv'[s].test /\ ValidateRequest(inv'[s]) = "ok" /\ NotOwned(inv'[s])) =>
              /\ Steps(s) => UNCHANGED store
              /\ inv'[s].pc \in {"start", "resp"}
              /\ inv'[s].calls = 0 /\ inv'[s].smtp = 0
              /\ inv'[s].pc = "resp" => HttpStatus(inv'[s].result) = 404]_vars

\* two rejected requests: one names another user's campaign, the other
\* names item 1 with campaign 2
C19_Witness ==
    \E s, u \in Slots :
        /\ inv[s].camp = ForeignCampaign /\ inv[s].result = "Campaign not found"
        /\ inv[u].item = 1 /\ inv[u].camp = 2
        /\ inv[u].result = "Queue item not found"

\* the handler's checks found the request malformed or the settings row
\* missing, or the transport's checks found the settings incomplete or the
\* sender address invalid
ValidationError(r) ==
    \/ r.bad # "none"
    \/ r.cfg = "none"
    \/ r.cfg = "unusable" /\ r.calls >= 1

\* C20: every validation error is found before a connection is opened and
\* is answered with status 400
C20_ValidationErrorsAre4xx ==
    \A s \in Slots :
        (inv[s].pc = "resp" /\ ValidationError(inv[s])) =>
            /\ inv[s].smtp = 0
            /\ HttpStatus(inv[s].result) = 400

\* ------------------------------------------------------- completion by a tick
\* C26: a tick decides that the campaign is complete (and goes on to write
\* status completed) only when the persisted queue of the campaign, as it is
\* at that tick, holds no pending item
C26_CompletedOnlyWhenNoPending ==
    [][completing' > completing =>
          \A q \in ItemsOf(view) : qStatus[q] # "pending"]_vars

\* ------------------------------------------------ what a Response discloses
\* C21: no Response carries the mail server's reply code or reply text in
\* its error: a protocol error is reported as a fixed text, in campaign mode
\* and in test mode
C21_NoReplyCodeInResponse ==
    \A s \in Slots : inv[s].pc = "resp" => inv[s].error = 0

\* C23: every connection of a send operation is opened with the
\* configuration built from the caller's stored settings row, so two
\* requests that differ only in a client-supplied smtp object connect with
\* the same configuration; and no step of the operation changes the stored
\* row it read
C23_TargetFromStoredSettings ==
    [][\A s \in Slots :
          /\ inv'[s].smtp > 0 => inv'[s].host = "stored"
          /\ \A u \in Slots :
                (inv'[s].smtp > 0 /\ inv'[u].smtp > 0) => inv'[s].host = inv'[u].host
          /\ (inv[s].pc # "idle" /\ inv'[s].pc # "idle") =>
                inv'[s].cfg = inv[s].cfg]_vars

\* two requests for queue item 1 that differ only in the smtp object of the
\* body have both connected
C23_Witness ==
    \E s, u \in Slots :
        /\ inv[s].client = "other" /\ inv[u].client = "none"
        /\ inv[s].test = inv[u].test /\ inv[s].item = inv[u].item
        /\ inv[s].smtp = 1 /\ inv[u].smtp = 1
        /\ inv[s].host = "stored" /\ inv[u].host = "stored"

\* ------------------------------------------------ rows the form inserts
\* C24: no campaign has two queue items with the same recipient address
C24_OneQueueItemPerRecipient ==
    \A i, j \in DOMAIN queueRows :
        (i # j /\ queueRows[i].campaign_id = queueRows[j].campaign_id) =>
            queueRows[i].recipient_email # queueRows[j].recipient_email

\* a campaign was submitted with two queue items after an address had been
\* offered to the form more than once
C24_Witness ==
    /\ repeated
    /\ \E c \in DOMAIN campaignRows : Cardinality(QueueOf(c)) = 2

\* C25: whenever a campaigns row exists, its queue items exist: their number
\* equals total_recipients
C25_QueueCreatedWithCampaign ==
    \A c \in DOMAIN campaignRows :
        Cardinality(QueueOf(c)) = campaignRows[c].total_recipients

\* ------------------------------------------------------ the SMTP dialogue
\* the run of sendEmailViaSMTP has a connection
HasConn == wire.pc \notin {"none"} /\ wire # NotConnected
Last(seq) == seq[Len(seq)]
IsPrefix(a, b) == Len(a) <= Len(b) /\ SubSeq(b, 1, Len(a)) = a

\* C22: when sendEmailViaSMTP has returned or thrown, the connection it
\* opened is closed, whatever ended the dialogue
C22_ConnectionClosedOnEveryExit ==
    (wire.pc \in {"returned", "thrown"} /\ HasConn) => wire.conn = "closed"

\* the run threw on a 554 reply received after the TLS upgrade, and its
\* connection is closed
C22_Witness ==
    /\ wire.pc = "thrown" /\ HasConn
    /\ wire.tls /\ wire.encryption = "tls" /\ wire.err = 554
    /\ wire.conn = "closed"

AuthCommands == {"AUTH LOGIN", "username", "password", "AUTH PLAIN"}

\* the commands written, with the commands of the authentication as one
\* step AUTH
RECURSIVE Collapsed(_)
Collapsed(written) ==
    IF written = <<>> THEN <<>>
    ELSE LET rest == Collapsed(Tail(written)) IN
         IF Head(written) \notin AuthCommands THEN <<Head(written)>> \o rest
         ELSE IF rest # <<>> /\ Head(rest) = "AUTH" THEN rest
         ELSE <<"AUTH">> \o rest

\* the order of the steps after the greeting
FixedOrder(encryption) ==
    <<"EHLO">>
    \o (IF encryption = "tls" THEN <<"STARTTLS", "EHLO">> ELSE <<>>)
    \o <<"AUTH", "MAIL FROM", "RCPT TO", "DATA", "message", "QUIT">>

\* the reply codes a step must receive before the next step is sent
StepCodes(step) ==
    CASE step \in {"greeting", "STARTTLS"} -> {220}
      [] step \in {"EHLO", "MAIL FROM", "end-of-data"} -> {250}
      [] step = "RCPT TO" -> {250, 251}
      [] step = "DATA" -> {354}
      [] step = "QUIT" -> {221}

\* the last reply received answers a step of the authentication, or carries
\* a code that lets the next step be sent
LastReplyExpected(w) ==
    /\ w.replies # <<>>
    /\ Last(w.replies).step \in AuthCommands
       \/ Last(w.replies).code \in StepCodes(Last(w.replies).step)

\* the only line of data that is a single dot is its last line
EndsWithLoneDot(data) ==
    LET lines == SplitCrlf(data, <<>>) IN
    /\ lines # <<>> /\ Last(lines) = <<".">>
    /\ \A i \in 1..(Len(lines) - 1) : lines[i] # <<".">>

\* C27: the commands are written in the fixed order (STARTTLS and a second
\* EHLO only with encryption tls, and every command after STARTTLS on the
\* upgraded connection, no reply being taken from lines buffered before the
\* upgrade); a step other than the AUTH PLAIN fallback is written only
\* after the previous step received its expected code, the message only
\* after 354 to DATA and ending with the one line that is a single dot; and
\* the function returns only after every step received its expected code
C27_StepsInOrder ==
    [][HasConn' =>
          /\ IsPrefix(Collapsed(wire'.written), FixedOrder(wire'.encryption))
          /\ ~wire'.staleUsed
          /\ (HasConn /\ Len(wire'.written) > Len(wire.written)) =>
                /\ Last(wire'.written) # "AUTH PLAIN" => LastReplyExpected(wire)
                /\ Last(wire'.written) = "message" =>
                      /\ Last(wire.replies) = [step |-> "DATA", code |-> 354]
                      /\ EndsWithLoneDot(wire'.data)
                /\ (\E i \in DOMAIN wire.written : wire.written[i] = "STARTTLS") =>
                      wire.tls
          /\ wire'.pc = "returned" =>
                /\ Collapsed(wire'.written) = FixedOrder(wire'.encryption)
                /\ \A i \in DOMAIN wire'.replies :
                      wire'.replies[i].step \notin AuthCommands =>
                          wire'.replies[i].code \in StepCodes(wire'.replies[i].step)
                /\ Last(wire'.replies) = [step |-> "QUIT", code |-> 221]]_vars

\* a delivery with encryption tls has returned after the whole dialogue
C27_Witness ==
    /\ wire.pc = "returned" /\ wire.encryption = "tls" /\ wire.tls
    /\ Collapsed(wire.written) = FixedOrder("tls")
    /\ wire.conn = "closed" /\ ~wire.thrown

\* C28: MAIL FROM is written only after the server answered 235 to the
\* password step of AUTH LOGIN or to AUTH PLAIN; AUTH PLAIN is written only
\* when AUTH LOGIN did not end with 235; and a reply to AUTH PLAIN other than
\* 235 ends the delivery with an error
C28_AuthRequires235 ==
    [][(HasConn /\ HasConn') =>
          /\ (Len(wire'.written) > Len(wire.written)
                /\ Last(wire'.written) = "MAIL FROM") =>
                /\ Last(wire.replies).step \in {"password", "AUTH PLAIN"}
                /\ Last(wire.replies).code = 235
          /\ (Len(wire'.written) > Len(wire.written)
                /\ Last(wire'.written) = "AUTH PLAIN") =>
                [step |-> "password", code |-> 235] \notin Range(wire.replies)
          /\ (Len(wire'.replies) > Len(wire.replies)
                /\ Last(wire'.replies).step = "AUTH PLAIN"
                /\ Last(wire'.replies).code # 235) =>
                (wire'.pc = "finally" /\ wire'.thrown)]_vars

\* ------------------------------------------------------------ reply parsing
\* the code of a line: its first three characters when they are digits
HasCode(line) == Len(line) >= 3 /\ \A i \in 1..3 : IsDigit(line[i])
CodeOf(line) == 100 * DigitValue(line[1]) + 10 * DigitValue(line[2]) + DigitValue(line[3])

\* a line that ends a reply with the code of `first`: the code followed by
\* a blank, or by nothing
EndsReply(line, first) ==
    /\ Len(line) >= 3 /\ SubSeq(line, 1, 3) = SubSeq(first, 1, 3)
    /\ Len(line) = 3 \/ line[4] = " "

\* the number of lines of the first reply in lines (0 when the lines end
\* before the reply does)
ReplyLength(lines) ==
    IF Len(lines[1]) = 3 \/ lines[1][4] = " " THEN 1
    ELSE IF \E i \in 2..Len(lines) : EndsReply(lines[i], lines[1])
    THEN CHOOSE i \in 2..Len(lines) :
            /\ EndsReply(lines[i], lines[1])
            /\ \A j \in 2..(i - 1) : ~EndsReply(lines[j], lines[1])
    ELSE 0

\* C29: readResponse returns the numeric code of the first three characters
\* and uses exactly the lines of one reply: one line when the fourth
\* character is a blank or absent, otherwise the lines up to the first one
\* that repeats the code followed by a blank or by nothing; a first line
\* that does not start with three digits is a protocol error
C29_ReadResponseTakesOneReply ==
    wire.pc = "read" =>
        IF ~HasCode(wire.lines[1]) THEN wire.result.outcome = "invalid"
        ELSE ReplyLength(wire.lines) > 0 =>
                /\ wire.result.outcome = "reply"
                /\ wire.result.code = CodeOf(wire.lines[1])
                /\ wire.result.used = ReplyLength(wire.lines)

\* ------------------------------------------------------------ header lines
\* the header lines of data: its lines before the first empty line
RECURSIVE UpToEmpty(_)
UpToEmpty(lines) ==
    IF lines = <<>> \/ Head(lines) = <<>> THEN <<>>
    ELSE <<Head(lines)>> \o UpToEmpty(Tail(lines))

HeaderLines(data) == UpToEmpty(SplitCrlf(data, <<>>))

HeaderNames ==
    <<"From: ", "To: <", "Subject: ", "MIME-Version: 1.0",
      "Content-Type: text/html; charset=\"UTF-8\"",
      "Content-Transfer-Encoding: 7bit">>

HasSpace(value) == \E i \in DOMAIN value : IsSpace(value[i])
HasLineBreak(value) == \E i \in DOMAIN value : IsLineBreak(value[i])

\* C30: a message that is written has exactly the six header lines of the
\* program, none of them containing a carriage return or a line feed; its
\* subject has no CR or LF and at most 998 characters, the recipient address
\* of the request and the sender address used have no whitespace
C30_NoLineBreakInHeaders ==
    letter.pc = "composed" =>
        /\ Len(HeaderLines(letter.data)) = Len(HeaderNames)
        /\ \A i \in DOMAIN HeaderNames :
              /\ HeaderLines(letter.data)[i][1] = HeaderNames[i]
              /\ ~HasLineBreak(HeaderLines(letter.data)[i])
        /\ ~HasLineBreak(letter.given.subject) /\ Length(letter.given.subject) <= 998
        /\ ~HasSpace(letter.given.recipientEmail)
        /\ ~HasSpace(letter.fromEmail)

\* a message was composed from settings whose display name contains CR LF
\* and a header text, and whose sender address ends with a line feed
C30_Witness ==
    /\ letter.pc = "composed"
    /\ HasLineBreak(letter.given.fromName)
    /\ HasLineBreak(letter.given.fromEmail)
    /\ Length(letter.given.subject) = 998

\* ------------------------------------------------------------ the body sent
\* the body of data: its lines after the first empty line, without the
\* empty line and the terminator that end the data
BodyOf(data) ==
    LET lines == SplitCrlf(data, <<>>)
        first == Len(HeaderLines(data)) + 2
    IN Join(SubSeq(lines, first, Len(lines) - 2))

RECURSIVE LeadingDots(_)
LeadingDots(value) ==
    IF value # <<>> /\ Head(value) = "." THEN 1 + LeadingDots(Tail(value)) ELSE 0

\* C31: in a message that is written, the body has none of the characters
\* & < > " ' of the request's body left as such, every CR in it is followed
\* by LF and every LF preceded by CR, a body that begins with dots is sent
\* with one dot more, and no line of the data before the terminator is a
\* single dot
C31_BodyEscapedNormalisedStuffed ==
    letter.pc = "composed" =>
        LET out == BodyOf(letter.data)
            lines == SplitCrlf(letter.data, <<>>)
        IN /\ \A i \in DOMAIN out : out[i] \notin {"&", "<", ">", "DQ", "'"}
           /\ \A i \in DOMAIN out :
                 /\ out[i] = "CR" => (i < Len(out) /\ out[i + 1] = "LF")
                 /\ out[i] = "LF" => (i > 1 /\ out[i - 1] = "CR")
           /\ LeadingDots(letter.given.body) > 0 =>
                 LeadingDots(out) = LeadingDots(letter.given.body) + 1
           /\ lines[Len(lines)] = <<".">>
           /\ \A i \in 1..(Len(lines) - 1) : lines[i] # <<".">>

\* ------------------------------------------------------------ tracking events
EventsOf(id, kind) ==
    {i \in DOMAIN trackingEvents :
        trackingEvents[i].sent_email_id = id /\ trackingEvents[i].event_type = kind}

\* C32: a row of sent_emails has a token of its own; a timestamp that is
\* set is never changed; an event with a token and kind is recorded at most
\* once; a request whose token is the token of no row changes nothing
C32_FirstEventOnly ==
    [][/\ \A i, j \in DOMAIN sentEmails' : TrackingToken(i) = TrackingToken(j) => i = j
       /\ \A i \in SentIds :
             /\ openedAt[i] # 0 => openedAt'[i] = openedAt[i]
             /\ clickedAt[i] # 0 => clickedAt'[i] = clickedAt[i]
             /\ \A kind \in EventTypes : Cardinality(EventsOf(i, kind)') <= 1
       /\ \A t \in TrackSlots :
             (track[t].pc = "find" /\ track'[t].pc = "idle") =>
                 UNCHANGED <<trackingEvents, openedAt, clickedAt>>]_vars

\* ------------------------------------------------------------- termination
\* C33: when the page of a running campaign has started its processor, the
\* campaign is eventually completed in the store with none of its queue
\* items pending or sending
C33_RunningCampaignCompletes ==
    \A c \in Campaigns :
        (view = c /\ isRunningRef /\ campStatus[c] = "running")
            ~> (/\ campStatus[c] = "completed"
                /\ \A q \in ItemsOf(c) : qStatus[q] \notin {"pending", "sending"})

\* -------------------------------------------------- local and persisted view
\* C34: when a send call of the page has returned, the local status of its
\* queue item is the persisted status of the item and the local sent_count
\* is the persisted sent_count of the campaign
C34_LocalViewAgrees ==
    [][\A s \in Slots :
          (inv[s].pc = "resp" /\ inv[s].att /\ inv'[s].pc = "idle") =>
              /\ lq'[inv[s].item] = qStatus'[inv[s].item]
              /\ lcSent' = sentCount'[view]]_vars

\* ------------------------------------------------------ the skipped status
\* C35: a queue item whose request is being answered 'Duplicate skipped'
\* is skipped in the store, not pending
C35_SkippedIsStored ==
    \A s \in Slots :
        (inv[s].pc = "resp" /\ inv[s].result = "dupskip") =>
            qStatus[inv[s].item] = "skipped"

\* ------------------------------------------------ deliveries per recipient
\* sendEmailViaSMTP has returned in invocation s: the message was delivered
Succeeded(s) ==
    \/ inv[s].pc \in {"marksent", "insert", "readcount", "writecount"}
    \/ inv[s].pc = "resp" /\ inv[s].result = "sent"

\* C36: two send operations for different queue items never both complete
\* a delivery to the same recipient, and no delivery to a recipient is
\* completed when a sent SentRecord of that recipient exists
C36_OneDeliveryPerRecipient ==
    /\ \A s, t \in Slots :
          (Succeeded(s) /\ Succeeded(t) /\ inv[s].item # inv[t].item) =>
              Recipient(inv[s].item) # Recipient(inv[t].item)
    /\ \A s \in Slots :
          inv[s].pc = "marksent" => ~ExistingSent(Recipient(inv[s].item))

\* --------------------------------------------- sending only while running
\* C37: a queue item is moved to sending, and a delivery is started, only
\* while the persisted status of its campaign is running
C37_SendsOnlyWhileRunning ==
    [][\A s \in Slots :
          (/\ inv[s].pc \in {"marksending", "smtp"}
           /\ inv'[s].pc # inv[s].pc
           /\ inv[s].item \in Items) =>
              campStatus[CampaignOf(inv[s].item)] = "running"]_vars

\* ------------------------------------------------- accepted means sent
\* C38: a queue item is recorded as sent only when the mail server accepted
\* its message, and is not recorded as failed when the server accepted it
C38_SentIffAccepted ==
    [][\A s \in Slots :
          /\ (inv[s].pc = "marksent" /\ inv'[s].pc = "insert") => inv[s].accepted
          /\ (inv[s].pc = "markfailed" /\ inv'[s].pc = "resp") => ~inv[s].accepted]_vars

====
